---- MODULE Spec2Model ----
(***************************************************************************)
(* Model of the SSE conformance scenarios of the repository.               *)
(*                                                                         *)
(* Part 1: SSERetryScenario (src/unnamed/part_002, lines 282-824), the     *)
(* server-role harness that probes a client under test.  Every handler of  *)
(* the class runs to completion on the single JavaScript thread, so each   *)
(* handler (and the 50 ms timer callback) is one action.                   *)
(*                                                                         *)
(* Encodings: null is the number -1 and undefined the number -2 (JSON-RPC  *)
(* ids and performance.now() instants of the model are never negative);    *)
(* an absent header is the empty string (which the code treats exactly     *)
(* like an absent one: `if (lastEventId)`).  Instants are whole            *)
(* milliseconds.  The ISO timestamp of a check is not modelled: nothing    *)
(* reads it.                                                               *)
(***************************************************************************)
EXTENDS Integers, Sequences, FiniteSets, TLC

\* ---------------------------------------------------------------- bounds
MaxRequests == 3      \* requests handled by one harness

\* ------------------------------------------------------------- encodings
Null == -1
Undefined == -2
NoHeader == ""

\* ------------------------------------------------- constants of the class
retryValue == 500
EARLY_TOLERANCE == 50
LATE_TOLERANCE == 200
VERY_LATE_MULTIPLIER == 2
CloseDelay == 50

\* ---------------------------------------------------------------- inputs
\* Delays between stream close and reconnect that the clock can realise.
Delays == {300, 440, 449, 450, 540, 700, 701, 1000, 1001}
\* Instants to which the clock can advance besides the timers' due times:
\* none for the event-driven clock of Spec, and for SpecTiming the instants
\* that realise every delay of Delays after a close at CloseDelay.
TimePoints == {}
FineTimePoints == {CloseDelay + d : d \in Delays}
\* JSON-RPC ids of the requests; Undefined = no id field (a notification).
RequestIds == {1, 2, Undefined}
PlainIds == {1, Undefined}
\* The methods answered without a stream ("ping" stands for any other one).
PlainMethods == {"initialize", "tools/list", "ping"}
LastEventIdHeaders == {NoHeader, "event-1"}
\* The GET requests of SpecHeaders: the well-formed resumptions with either
\* of two Last-Event-ID values or none, and the requests that lack the
\* session id, carry a foreign one or target another path.
GetRequests ==
  {[url |-> "/", sid |-> "session-0", lastEventId |-> h] :
     h \in {NoHeader, "event-1", "event-2"}}
  \cup {[url |-> "/", sid |-> NoHeader, lastEventId |-> "event-1"],
        [url |-> "/", sid |-> "session-x", lastEventId |-> "event-1"],
        [url |-> "/other", sid |-> "session-0", lastEventId |-> "event-1"]}

VARIABLES
  server,               \* this.server: "null" or "listening"
  checks,               \* this.checks, the check ledger
  toolStreamCloseTime,  \* this.toolStreamCloseTime
  getReconnectionTime,  \* this.getReconnectionTime
  getConnectionCount,   \* this.getConnectionCount
  lastEventIds,         \* this.lastEventIds
  eventIdCounter,       \* this.eventIdCounter
  sessionId,            \* this.sessionId
  pendingToolCallId,    \* this.pendingToolCallId
  getResponseStream,    \* this.getResponseStream: index into responses, 0 = null
  responses,            \* the http.ServerResponse objects, in handling order
  timers,               \* pending setTimeout callbacks
  now                   \* performance.now()

\* ServerSSEPollingScenario.run (src/scenarios/server/sse-polling.ts): the
\* locals of one call and what the call did to the outside.  The locals
\* `checks`, `sessionId`, `retryValue` and `lastEventId` carry the prefix
\* `probe` here.
VARIABLES
  pc,                   \* where run() stands: the await it is suspended at
  probeChecks,          \* const checks
  probeSessionId,       \* let sessionId ("" = undefined)
  client,               \* let client: "undefined", "created", "connected", "closed"
  closeCalls,           \* number of client.close() calls made
  error,                \* the error caught by the top-level catch ("" = none)
  hasEventId,
  hasPrimingEvent,
  primingEventIsFirst,
  hasRetryField,
  probeRetryValue,      \* let retryValue (Undefined until onRetry ran)
  probeLastEventId,     \* let lastEventId ("" = undefined)
  eventCount,
  receivedToolResponse,
  reader,               \* POST stream reader: "none", "open", "done", "cancelled", "errored"
  timeout,              \* the 10 s timer: "none", "armed", "fired", "cleared"
  reconnectReader,      \* GET stream reader, same values as reader
  reconnectTimeout,     \* the 5 s timer, same values as timeout
  sent,                 \* the fetch() calls made, in order
  decoded,              \* events the POST stream reader returned, in order
  redecoded             \* events the GET stream reader returned, in order

proberVars == <<pc, probeChecks, probeSessionId, client, closeCalls, error,
                hasEventId, hasPrimingEvent, primingEventIsFirst,
                hasRetryField, probeRetryValue, probeLastEventId,
                eventCount,
                receivedToolResponse, reader, timeout, reconnectReader,
                reconnectTimeout, sent, decoded, redecoded>>

\* ServerSSEMultipleStreamsScenario.run (part_002:22-267): its locals, with
\* the prefix `tester` where a name is taken, and what the call did to the
\* outside.
VARIABLES
  testerPc,             \* where run() stands
  testerChecks,         \* const checks
  testerSessionId,      \* let sessionId ("" = undefined)
  testerClient,         \* let client, values as for the prober's
  testerCloseCalls,     \* number of client.close() calls made
  testerError,          \* the error caught by the top-level catch
  posted,               \* the fetch() calls made, in order
  streamResponses,      \* per request index: the response, once it arrived
  eventResults,         \* per request index: the result of the stream test
  readers               \* per request index: the state of the stream reader

testerVars == <<testerPc, testerChecks, testerSessionId, testerClient,
                testerCloseCalls, testerError, posted, streamResponses,
                eventResults, readers>>

clientVars == <<proberVars, testerVars>>

\* createAuthServer (part_003:48-261): the closure of one call and what its
\* route handlers did to the outside.  The `checks` array handed in carries
\* the prefix `auth` here.
VARIABLES
  authServer,               \* whether createAuthServer was called, and its
                            \* options onTokenRequest and tokenVerifier
  lastAuthorizationScopes,  \* let lastAuthorizationScopes
  authChecks,               \* the checks array handed to createAuthServer
  authResponses,            \* the responses sent, with their requests, in order
  registeredTokens          \* what tokenVerifier.registerToken was called with

authVars == <<authServer, lastAuthorizationScopes, authChecks, authResponses,
              registeredTokens>>

harnessVars == <<server, checks, toolStreamCloseTime, getReconnectionTime,
                 getConnectionCount, lastEventIds, eventIdCounter, sessionId,
                 pendingToolCallId, getResponseStream, responses, timers, now>>

vars == <<harnessVars, clientVars, authVars>>

\* ------------------------------------------------------------- helpers
\* `event-${n}`
EventId(n) == "event-" \o ToString(n)

\* One entry of the ledger.
Check(name, status, errorMessage, details) ==
  [name |-> name, status |-> status, errorMessage |-> errorMessage,
   details |-> details]

\* An SSE event as written on the wire.
\* Priming: `id: ${eventId}\nretry: ${retryValue}\ndata: \n\n`
PrimingEvent(n) ==
  [id |-> EventId(n), retry |-> retryValue, event |-> "", data |-> "",
   jsonrpcId |-> Null]
\* (a result that carries its own event number as JSON-RPC id)
ResultEvent_eventNumber(n, reqId) ==
  [id |-> EventId(n), retry |-> Null, event |-> "message", data |-> "result",
   jsonrpcId |-> n]
\* Result: `event: message\nid: ${id}\ndata: ${JSON.stringify(toolResponse)}\n\n`
ResultEvent(n, reqId) ==
  [id |-> EventId(n), retry |-> Null, event |-> "message", data |-> "result",
   jsonrpcId |-> reqId]

\* A response object: what was written on it so far.
Response(kind, reqId, status, ctype, sid, events, ended) ==
  [kind |-> kind, reqId |-> reqId, status |-> status, ctype |-> ctype,
   sid |-> sid, events |-> events, ended |-> ended]

\* run() entered: nothing declared yet has a value (sse-polling.ts:73-77,
\* 206-213).
ProberInit ==
  /\ pc = "start"
  /\ probeChecks = <<>>
  /\ probeSessionId = ""
  /\ client = "undefined"
  /\ closeCalls = 0
  /\ error = ""
  /\ hasEventId = FALSE
  /\ hasPrimingEvent = FALSE
  /\ primingEventIsFirst = FALSE
  /\ hasRetryField = FALSE
  /\ probeRetryValue = Undefined
  /\ probeLastEventId = ""
  /\ eventCount = 0
  /\ receivedToolResponse = FALSE
  /\ reader = "none"
  /\ timeout = "none"
  /\ reconnectReader = "none"
  /\ reconnectTimeout = "none"
  /\ sent = <<>>
  /\ decoded = <<>>
  /\ redecoded = <<>>

\* const numStreams = 3
numStreams == 3

\* The request indices of the tester, `i` of its for loop.
StreamIndices == 0..(numStreams - 1)

\* A response that has not arrived.
NoResponse == [arrived |-> FALSE, status |-> 0, ctype |-> "", hasBody |-> FALSE]

\* run() of the tester entered.
TesterInit ==
  /\ testerPc = "start"
  /\ testerChecks = <<>>
  /\ testerSessionId = ""
  /\ testerClient = "undefined"
  /\ testerCloseCalls = 0
  /\ testerError = ""
  /\ posted = <<>>
  /\ streamResponses = [i \in StreamIndices |-> NoResponse]
  /\ eventResults = [i \in StreamIndices |-> "pending"]
  /\ readers = [i \in StreamIndices |-> "none"]

\* Before createAuthServer is called.
AuthInit ==
  /\ authServer = [created |-> FALSE, onTokenRequest |-> "none",
                   tokenVerifier |-> FALSE]
  /\ lastAuthorizationScopes = <<>>
  /\ authChecks = <<>>
  /\ authResponses = <<>>
  /\ registeredTokens = {}

Init ==
  /\ server = "null"
  /\ checks = <<>>
  /\ toolStreamCloseTime = Null
  /\ getReconnectionTime = Null
  /\ getConnectionCount = 0
  /\ lastEventIds = <<>>
  /\ eventIdCounter = 0
  /\ sessionId = "session-0"
  /\ pendingToolCallId = Null
  /\ getResponseStream = 0
  /\ responses = <<>>
  /\ timers = {}
  /\ now = 0
  /\ ProberInit
  /\ TesterInit
  /\ AuthInit

\* start(): create the server and listen.
Start ==
  /\ server = "null"
  /\ server' = "listening"
  /\ UNCHANGED <<clientVars, authVars>>
  /\ UNCHANGED <<checks, toolStreamCloseTime, getReconnectionTime,
                 getConnectionCount, lastEventIds, eventIdCounter, sessionId,
                 pendingToolCallId, getResponseStream, responses, timers, now>>

\* Number of getChecks() calls so far: each pushes one ClientGracefulReconnect.
GetChecksCalls ==
  Cardinality({i \in 1..Len(checks) : checks[i].name = "ClientGracefulReconnect"})

\* A request can be handled: the server listens, the client under test is
\* still running (the runner calls getChecks() at teardown, after the client
\* has finished) and the request budget of the model is not used up.
Accepting ==
  /\ server = "listening"
  /\ GetChecksCalls = 0
  /\ Len(responses) < MaxRequests

\* ------------------------------------------------ handleRequest, GET branch
\* What handleGetSSEStream writes on the GET stream: the priming event and,
\* when a tool call is pending, the deferred result.
GetStreamEvents_always(counter, pending) ==
  <<PrimingEvent(counter + 1), ResultEvent(counter + 2, pending)>>
GetStreamEvents_resultFirst(counter, pending) ==
  IF pending # Null
    THEN <<ResultEvent(counter + 2, pending), PrimingEvent(counter + 1)>>
    ELSE <<PrimingEvent(counter + 1)>>
GetStreamEvents(counter, pending) ==
  IF pending # Null
    THEN <<PrimingEvent(counter + 1), ResultEvent(counter + 2, pending)>>
    ELSE <<PrimingEvent(counter + 1)>>

\* eventIdCounter after handleGetSSEStream: `this.eventIdCounter++` and, on
\* the pending path, `++this.eventIdCounter`.
CounterAfterGet_once(counter, pending) == counter + 1
CounterAfterGet(counter, pending) ==
  IF pending # Null THEN counter + 2 ELSE counter + 1

\* pendingToolCallId after handleGetSSEStream: `this.pendingToolCallId = null`
\* on the pending path, untouched (null already) otherwise.
PendingAfterGet_keep(pending) == pending
PendingAfterGet(pending) == Null

\* The checks handleGetSSEStream pushes, one per event written.
GetStreamChecks(counter, pending) ==
  <<Check("OutgoingSseEvent", "INFO", "",
          [eventId |-> EventId(counter + 1), eventType |-> "priming",
           where |-> "GET", jsonrpcId |-> Null])>>
  \o (IF pending # Null
        THEN <<Check("OutgoingSseEvent", "INFO", "",
                     [eventId |-> EventId(counter + 2), eventType |-> "message",
                      where |-> "GET", jsonrpcId |-> pending])>>
        ELSE <<>>)

\* handleRequest for a GET, handleGetSSEStream included.  url is req.url, sid
\* the mcp-session-id header and lastEventId the last-event-id header of the
\* request; the response object remembers the first two.
HandleGet(url, sid, lastEventId) ==
  /\ Accepting
  /\ getConnectionCount' = getConnectionCount + 1
  /\ getReconnectionTime' = now
  /\ lastEventIds' = IF lastEventId # NoHeader
                       THEN Append(lastEventIds, lastEventId)
                       ELSE lastEventIds
  /\ checks' = checks
       \o <<Check("IncomingRequest", "INFO", "",
                  [method |-> "GET", url |-> url, sid |-> sid,
                   lastEventId |-> lastEventId,
                   connectionCount |-> getConnectionCount + 1])>>
       \o GetStreamChecks(eventIdCounter, pendingToolCallId)
  /\ responses' = Append(responses,
       [url |-> url, reqSid |-> sid]
         @@ Response("GET", Null, 200, "text/event-stream", sessionId,
                     GetStreamEvents(eventIdCounter, pendingToolCallId), FALSE))
  /\ getResponseStream' = Len(responses) + 1
  /\ eventIdCounter' = CounterAfterGet(eventIdCounter, pendingToolCallId)
  /\ pendingToolCallId' = PendingAfterGet(pendingToolCallId)
  /\ UNCHANGED <<clientVars, authVars>>
  /\ UNCHANGED <<server, toolStreamCloseTime, sessionId, timers, now>>

\* ----------------------------------------------- handleRequest, POST branch
IncomingPost(method, id) ==
  Check("IncomingRequest", "INFO", "",
        [method |-> "POST", jsonrpcMethod |-> method, jsonrpcId |-> id])

OutgoingResponse(what, id) ==
  Check("OutgoingResponse", "INFO", "", [what |-> what, jsonrpcId |-> id])

\* handleInitialize
HandleInitialize(id) ==
  /\ Accepting
  /\ responses' = Append(responses,
       Response("initialize", id, 200, "application/json", sessionId, <<>>, TRUE))
  /\ checks' = checks \o <<IncomingPost("initialize", id),
                           OutgoingResponse("initialize", id)>>
  /\ UNCHANGED <<clientVars, authVars>>
  /\ UNCHANGED <<server, toolStreamCloseTime, getReconnectionTime,
                 getConnectionCount, lastEventIds, eventIdCounter, sessionId,
                 pendingToolCallId, getResponseStream, timers, now>>

\* handleToolsList
HandleToolsList(id) ==
  /\ Accepting
  /\ responses' = Append(responses,
       Response("tools/list", id, 200, "application/json", sessionId, <<>>, TRUE))
  /\ checks' = checks \o <<IncomingPost("tools/list", id),
                           OutgoingResponse("tools/list", id)>>
  /\ UNCHANGED <<clientVars, authVars>>
  /\ UNCHANGED <<server, toolStreamCloseTime, getReconnectionTime,
                 getConnectionCount, lastEventIds, eventIdCounter, sessionId,
                 pendingToolCallId, getResponseStream, timers, now>>

\* What handleToolsCall writes on the POST stream of request id before it
\* returns: the priming event alone.
ToolsCallEvents_withResult(counter, id) ==
  <<PrimingEvent(counter + 1), ResultEvent(counter + 1, id)>>
ToolsCallEvents(counter, id) == <<PrimingEvent(counter + 1)>>

\* handleToolsCall: fills the pending slot, writes the priming event and
\* arms the timer that closes the stream.
HandleToolsCall(id) ==
  /\ Accepting
  /\ pendingToolCallId' = id
  /\ eventIdCounter' = eventIdCounter + 1
  /\ responses' = Append(responses,
       Response("tools/call", id, 200, "text/event-stream", sessionId,
                ToolsCallEvents(eventIdCounter, id), FALSE))
  /\ checks' = checks
       \o <<IncomingPost("tools/call", id),
            Check("OutgoingSseEvent", "INFO", "",
                  [eventId |-> EventId(eventIdCounter + 1),
                   eventType |-> "priming", where |-> "tools/call",
                   jsonrpcId |-> Null])>>
  /\ timers' = timers \cup {[res |-> Len(responses) + 1, due |-> now + CloseDelay]}
  /\ UNCHANGED <<clientVars, authVars>>
  /\ UNCHANGED <<server, toolStreamCloseTime, getReconnectionTime,
                 getConnectionCount, lastEventIds, sessionId,
                 getResponseStream, now>>

\* Any other method: 202 without body for a notification, `result: {}` else.
HandleOtherPost(id) ==
  /\ Accepting
  /\ responses' = Append(responses,
       IF id = Undefined
         THEN Response("notification", id, 202, "", NoHeader, <<>>, TRUE)
         ELSE Response("other", id, 200, "application/json", sessionId, <<>>, TRUE))
  /\ checks' = Append(checks, IncomingPost("ping", id))
  /\ UNCHANGED <<clientVars, authVars>>
  /\ UNCHANGED <<server, toolStreamCloseTime, getReconnectionTime,
                 getConnectionCount, lastEventIds, eventIdCounter, sessionId,
                 pendingToolCallId, getResponseStream, timers, now>>

\* The body is not JSON (or not an object): the catch block answers 400.
HandleParseError ==
  /\ Accepting
  /\ responses' = Append(responses,
       Response("parse-error", Null, 400, "application/json", NoHeader, <<>>, TRUE))
  /\ UNCHANGED <<clientVars, authVars>>
  /\ UNCHANGED <<server, checks, toolStreamCloseTime, getReconnectionTime,
                 getConnectionCount, lastEventIds, eventIdCounter, sessionId,
                 pendingToolCallId, getResponseStream, timers, now>>

\* handlePostRequest, on the 'end' event of the request body.
HandlePost(method, id) ==
  IF method = "initialize" THEN HandleInitialize(id)
  ELSE IF method = "tools/list" THEN HandleToolsList(id)
  ELSE IF method = "tools/call" THEN HandleToolsCall(id)
  ELSE HandleOtherPost(id)

\* handleRequest, neither GET nor POST: 405.
HandleOtherMethod ==
  /\ Accepting
  /\ responses' = Append(responses,
       Response("method-not-allowed", Null, 405, "", NoHeader, <<>>, TRUE))
  /\ UNCHANGED <<clientVars, authVars>>
  /\ UNCHANGED <<server, checks, toolStreamCloseTime, getReconnectionTime,
                 getConnectionCount, lastEventIds, eventIdCounter, sessionId,
                 pendingToolCallId, getResponseStream, timers, now>>

\* ------------------------------------------------------ the 50 ms timer
\* (a callback that ends the stream without recording the instant)
CloseTimer_noRecord(t) ==
  /\ t \in timers
  /\ now >= t.due
  /\ checks' = Append(checks,
       Check("OutgoingStreamClose", "INFO", "",
             [retryMs |-> retryValue, pendingToolCallId |-> pendingToolCallId]))
  /\ responses' = [responses EXCEPT ![t.res].ended = TRUE]
  /\ timers' = timers \ {t}
  /\ UNCHANGED <<clientVars, authVars>>
  /\ UNCHANGED <<server, toolStreamCloseTime, getReconnectionTime,
                 getConnectionCount, lastEventIds, eventIdCounter, sessionId,
                 pendingToolCallId, getResponseStream, now>>

\* The setTimeout callback of handleToolsCall: record the close instant,
\* push the check, end the stream.
CloseTimer(t) ==
  /\ t \in timers
  /\ now >= t.due
  /\ toolStreamCloseTime' = now
  /\ checks' = Append(checks,
       Check("OutgoingStreamClose", "INFO", "",
             [retryMs |-> retryValue, pendingToolCallId |-> pendingToolCallId]))
  /\ responses' = [responses EXCEPT ![t.res].ended = TRUE]
  /\ timers' = timers \ {t}
  /\ UNCHANGED <<clientVars, authVars>>
  /\ UNCHANGED <<server, getReconnectionTime, getConnectionCount,
                 lastEventIds, eventIdCounter, sessionId, pendingToolCallId,
                 getResponseStream, now>>

\* Time passes: to one of the given instants or to the due time of a
\* pending timer.  Only differences of instants are read, so the clock
\* starts with the first request; once every request is handled and no
\* timer is pending nothing reads it any more, so it stops.
Tick(points) ==
  /\ responses # <<>>
  /\ Accepting \/ timers # {}
  /\ \E t \in points \cup {tm.due : tm \in timers} :
       /\ t > now
       /\ now' = t
  /\ UNCHANGED <<clientVars, authVars>>
  /\ UNCHANGED <<server, checks, toolStreamCloseTime, getReconnectionTime,
                 getConnectionCount, lastEventIds, eventIdCounter, sessionId,
                 pendingToolCallId, getResponseStream, responses, timers>>

\* ------------------------------------------------------- generateChecks
\* Lines 719-727: the three comparisons on the measured delay.
tooEarly_noRetry(actualDelay) == actualDelay < EARLY_TOLERANCE
tooEarly(actualDelay) == actualDelay < retryValue - EARLY_TOLERANCE
slightlyLate_inclusive(actualDelay) == actualDelay >= retryValue + LATE_TOLERANCE
slightlyLate(actualDelay) == actualDelay > retryValue + LATE_TOLERANCE
veryLate_inclusive(actualDelay) == actualDelay >= retryValue * VERY_LATE_MULTIPLIER
veryLate(actualDelay) == actualDelay > retryValue * VERY_LATE_MULTIPLIER

\* The verdict with the slightly-late test placed before the very-late one.
RetryTimingVerdict_lateFirst(actualDelay) ==
  IF tooEarly(actualDelay)
    THEN [status |-> "FAILURE", errorMessage |-> "Client reconnected too early"]
  ELSE IF slightlyLate(actualDelay)
    THEN [status |-> "WARNING", errorMessage |-> "Client reconnected slightly late"]
  ELSE IF veryLate(actualDelay)
    THEN [status |-> "FAILURE", errorMessage |-> "Client reconnected very late"]
  ELSE [status |-> "SUCCESS", errorMessage |-> ""]

\* Lines 729-744: status and error message of the retry-timing check.
RetryTimingVerdict(actualDelay) ==
  IF tooEarly(actualDelay)
    THEN [status |-> "FAILURE", errorMessage |-> "Client reconnected too early"]
  ELSE IF veryLate(actualDelay)
    THEN [status |-> "FAILURE", errorMessage |-> "Client reconnected very late"]
  ELSE IF slightlyLate(actualDelay)
    THEN [status |-> "WARNING", errorMessage |-> "Client reconnected slightly late"]
  ELSE [status |-> "SUCCESS", errorMessage |-> ""]

\* Check 2, the ClientRespectsRetryField entry.
RetryTimingCheck(closeTime, reconnectTime) ==
  IF closeTime # Null /\ reconnectTime # Null
    THEN LET actualDelay == reconnectTime - closeTime
             v == RetryTimingVerdict(actualDelay)
         IN  Check("ClientRespectsRetryField", v.status, v.errorMessage,
                   [expectedRetryMs |-> retryValue,
                    actualDelayMs |-> actualDelay,
                    minAcceptableMs |-> retryValue - EARLY_TOLERANCE,
                    maxAcceptableMs |-> retryValue + LATE_TOLERANCE,
                    veryLateThresholdMs |-> retryValue * VERY_LATE_MULTIPLIER,
                    withinTolerance |-> (~tooEarly(actualDelay)
                                          /\ ~slightlyLate(actualDelay)),
                    tooEarly |-> tooEarly(actualDelay),
                    slightlyLate |-> slightlyLate(actualDelay),
                    veryLate |-> veryLate(actualDelay)])
    ELSE Check("ClientRespectsRetryField", "WARNING", "Could not measure timing",
               [toolStreamCloseTime |-> closeTime,
                getReconnectionTime |-> reconnectTime])

\* Variant: a missing Last-Event-ID reported as FAILURE.
LastEventIdCheck_failure(ids, count) ==
  LET hasLastEventId == Len(ids) > 0
  IN  Check("ClientSendsLastEventId",
            IF hasLastEventId THEN "SUCCESS" ELSE "FAILURE",
            IF hasLastEventId THEN "" ELSE "Client did not send Last-Event-ID",
            [hasLastEventId |-> hasLastEventId, lastEventIds |-> ids,
             getConnectionCount |-> count])

\* Check 3, the ClientSendsLastEventId entry.
LastEventIdCheck(ids, count) ==
  LET hasLastEventId == Len(ids) > 0
  IN  Check("ClientSendsLastEventId",
            IF hasLastEventId THEN "SUCCESS" ELSE "WARNING",
            IF hasLastEventId THEN "" ELSE "Client did not send Last-Event-ID",
            [hasLastEventId |-> hasLastEventId, lastEventIds |-> ids,
             getConnectionCount |-> count])

\* Variant: one GET is not enough for ClientGracefulReconnect.
GeneratedChecks_needsTwo(count, closeTime, reconnectTime, ids) ==
  IF count < 2
    THEN <<Check("ClientGracefulReconnect", "FAILURE",
                 "Client did not attempt GET reconnection",
                 [getConnectionCount |-> count])>>
    ELSE <<Check("ClientGracefulReconnect", "SUCCESS", "",
                 [getConnectionCount |-> count]),
           RetryTimingCheck(closeTime, reconnectTime),
           LastEventIdCheck(ids, count)>>

\* The entries generateChecks pushes.
GeneratedChecks(count, closeTime, reconnectTime, ids) ==
  IF count < 1
    THEN <<Check("ClientGracefulReconnect", "FAILURE",
                 "Client did not attempt GET reconnection",
                 [getConnectionCount |-> count])>>
    ELSE <<Check("ClientGracefulReconnect", "SUCCESS", "",
                 [getConnectionCount |-> count]),
           RetryTimingCheck(closeTime, reconnectTime),
           LastEventIdCheck(ids, count)>>

\* getChecks(): generateChecks() and return the ledger.  The runner calls it
\* once, at teardown.
GetChecks ==
  /\ server = "listening"
  /\ GetChecksCalls = 0
  /\ checks' = checks \o GeneratedChecks(getConnectionCount, toolStreamCloseTime,
                                         getReconnectionTime, lastEventIds)
  /\ UNCHANGED <<clientVars, authVars>>
  /\ UNCHANGED <<server, toolStreamCloseTime, getReconnectionTime,
                 getConnectionCount, lastEventIds, eventIdCounter, sessionId,
                 pendingToolCallId, getResponseStream, responses, timers, now>>

\* The harness under every kind of request, on a coarse clock.
Next ==
  \/ Start
  \/ \E h \in LastEventIdHeaders : HandleGet("/", "session-0", h)
  \/ \E id \in RequestIds : HandlePost("tools/call", id)
  \/ \E m \in PlainMethods, id \in PlainIds : HandlePost(m, id)
  \/ HandleParseError
  \/ HandleOtherMethod
  \/ \E t \in timers : CloseTimer(t)
  \/ Tick(TimePoints)
  \/ GetChecks

Spec == Init /\ [][Next]_vars

\* The harness under an optional initialize, one tools/call and GET
\* requests, on a clock that realises every delay of Delays between stream
\* close and reconnect.
NextTiming ==
  \/ Start
  \/ \E h \in LastEventIdHeaders : HandleGet("/", "session-0", h)
  \/ responses = <<>> /\ HandlePost("initialize", 1)
  \/ /\ \A i \in 1..Len(responses) : responses[i].kind = "initialize"
     /\ HandlePost("tools/call", 1)
  \/ \E t \in timers : CloseTimer(t)
  \/ Tick(FineTimePoints)
  \/ GetChecks

SpecTiming == Init /\ [][NextTiming]_vars

\* The harness under GET requests with every combination of headers the
\* handler could look at, one tools/call, one initialize and one request of
\* another HTTP method.
NextHeaders ==
  \/ Start
  \/ \E r \in GetRequests : HandleGet(r.url, r.sid, r.lastEventId)
  \/ HandlePost("tools/call", 1)
  \/ HandlePost("initialize", 1)
  \/ HandleOtherMethod
  \/ \E t \in timers : CloseTimer(t)
  \/ Tick(TimePoints)
  \/ GetChecks

SpecHeaders == Init /\ [][NextHeaders]_vars

\* stop(): server.close(); its callback sets this.server = null.  No other
\* field is touched.
Stop ==
  /\ server = "listening"
  /\ server' = "null"
  /\ UNCHANGED <<clientVars, authVars>>
  /\ UNCHANGED <<checks, toolStreamCloseTime, getReconnectionTime,
                 getConnectionCount, lastEventIds, eventIdCounter, sessionId,
                 pendingToolCallId, getResponseStream, responses, timers, now>>

\* One scenario object over several start()/stop() cycles.
NextRestart ==
  \/ Start
  \/ Stop
  \/ \E h \in LastEventIdHeaders : HandleGet("/", "session-0", h)
  \/ HandlePost("tools/call", 1)
  \/ \E t \in timers : CloseTimer(t)
  \/ Tick(TimePoints)
  \/ GetChecks

SpecRestart == Init /\ [][NextRestart]_vars

\* ======================================================================
\* Properties of the retry-timing verdict (checked under SpecTiming)
\* ======================================================================
\* The ClientRespectsRetryField entries of the ledger that report a
\* measured delay.
MeasuredRetryChecks ==
  {i \in 1..Len(checks) :
     /\ checks[i].name = "ClientRespectsRetryField"
     /\ checks[i].errorMessage # "Could not measure timing"}

\* Some getChecks() measured the delay d and reported status st.
Measured(d, st) ==
  \E i \in MeasuredRetryChecks :
    /\ checks[i].details.actualDelayMs = d
    /\ checks[i].status = st

\* C1: a measured delay below retry - earlyTolerance (450 ms) always yields
\* FAILURE with the "reconnected too early" message, whatever the late tests
\* say.
C1_TooEarlyIsFailure ==
  \A i \in MeasuredRetryChecks :
    checks[i].details.actualDelayMs < 450
      => /\ checks[i].status = "FAILURE"
         /\ checks[i].errorMessage = "Client reconnected too early"

C1_Witness ==
  \E i \in MeasuredRetryChecks :
    /\ checks[i].details.actualDelayMs = 300
    /\ checks[i].status = "FAILURE"
    /\ checks[i].errorMessage = "Client reconnected too early"

\* C2: a measured delay above retry * veryLateMultiplier (1000 ms) always
\* yields FAILURE, never WARNING.
C2_VeryLateIsFailure ==
  \A i \in MeasuredRetryChecks :
    checks[i].details.actualDelayMs > 1000 => checks[i].status = "FAILURE"

C2_Witness ==
  \E i \in MeasuredRetryChecks :
    /\ checks[i].details.actualDelayMs = 1001
    /\ checks[i].status = "FAILURE"
    /\ checks[i].errorMessage = "Client reconnected very late"

\* C3: for a measured delay d the status is WARNING exactly when
\* 700 < d <= 1000, SUCCESS exactly when 450 <= d <= 700, and always one of
\* SUCCESS, WARNING, FAILURE.
C3_BandsPartition ==
  \A i \in MeasuredRetryChecks :
    LET d == checks[i].details.actualDelayMs
    IN  /\ checks[i].status \in {"SUCCESS", "WARNING", "FAILURE"}
        /\ checks[i].status = "WARNING" <=> (700 < d /\ d <= 1000)
        /\ checks[i].status = "SUCCESS" <=> (450 <= d /\ d <= 700)

C3_Witness == Measured(701, "WARNING")

\* C4: the boundary values: 540 -> SUCCESS, 440 -> FAILURE, 449 -> FAILURE,
\* 450 -> SUCCESS, 700 -> SUCCESS, 701 -> WARNING, 1000 -> WARNING,
\* 1001 -> FAILURE.
C4_BoundaryValues ==
  \A i \in MeasuredRetryChecks :
    LET d == checks[i].details.actualDelayMs
        st == checks[i].status
    IN  /\ d = 540 => st = "SUCCESS"
        /\ d = 440 => st = "FAILURE"
        /\ d = 449 => st = "FAILURE"
        /\ d = 450 => st = "SUCCESS"
        /\ d = 700 => st = "SUCCESS"
        /\ d = 701 => st = "WARNING"
        /\ d = 1000 => st = "WARNING"
        /\ d = 1001 => st = "FAILURE"

C4_Witness == Measured(1000, "WARNING")

\* The harness under the requests that open a stream and one that does not,
\* with the scheduling Node guarantees: the clock advances and
\* a due timer callback is eventually run.
NextLive ==
  \/ Start
  \/ \E h \in LastEventIdHeaders : HandleGet("/", "session-0", h)
  \/ \E id \in RequestIds : HandlePost("tools/call", id)
  \/ HandlePost("initialize", 1)
  \/ \E t \in timers : CloseTimer(t)
  \/ Tick(TimePoints)
  \/ GetChecks

SpecLive ==
  /\ Init
  /\ [][NextLive]_vars
  /\ WF_vars(Tick(TimePoints))
  /\ WF_vars(\E t \in timers : CloseTimer(t))

\* ======================================================================
\* Properties of the streams (checked under Spec; C9 under SpecLive)
\* ======================================================================
Streams == 1..Len(responses)
IsCall(i) == responses[i].kind = "tools/call"
IsGet(i) == responses[i].kind = "GET"
HasResult(i) == \E k \in 1..Len(responses[i].events) :
                  responses[i].events[k].data = "result"
CallBetween(i, j) == \E k \in Streams : i < k /\ k < j /\ IsCall(k)
GetBetween(i, j) == \E k \in Streams : i < k /\ k < j /\ IsGet(k)

\* A priming event: an id, the retry hint and no data.
IsPriming(e) == e.id # "" /\ e.retry = retryValue /\ e.data = ""

\* The SSE ids in emission order.  The handlers write every event of a
\* stream before they return, so this is the concatenation over the
\* responses in handling order.
RECURSIVE EmittedIdsUpTo(_)
EmittedIdsUpTo(i) ==
  IF i = 0 THEN <<>>
  ELSE EmittedIdsUpTo(i - 1)
         \o [k \in 1..Len(responses[i].events) |-> responses[i].events[k].id]
EmittedIds == EmittedIdsUpTo(Len(responses))

\* Parsing `event-<n>`: the ids the counter can have produced.
EventNumbers == 0..(2 * MaxRequests + 2)
HasEventIdForm(id) == \E n \in EventNumbers : id = "event-" \o ToString(n)
EventNum(id) == CHOOSE n \in EventNumbers : id = "event-" \o ToString(n)

\* C5: once the deferred result was written on a GET stream no later GET
\* stream carries a result unless a tools/call was handled in between; of the
\* first two GETs after a tools/call (no other tools/call around them) exactly
\* one, the first, carries the result and the other only its priming event.
C5_SingleDelivery ==
  /\ \A i, j \in Streams :
       (IsGet(i) /\ IsGet(j) /\ i < j /\ HasResult(i) /\ ~CallBetween(i, j))
         => ~HasResult(j)
  /\ \A c, i, j \in Streams :
       (/\ IsCall(c) /\ IsGet(i) /\ IsGet(j) /\ c < i /\ i < j
        /\ ~CallBetween(c, j) /\ ~GetBetween(c, i) /\ ~GetBetween(i, j))
         => /\ HasResult(i) /\ ~HasResult(j)
            /\ Len(responses[j].events) = 1
            /\ IsPriming(responses[j].events[1])

C5_Witness ==
  \E c, i, j \in Streams :
    /\ IsCall(c) /\ IsGet(i) /\ IsGet(j) /\ c < i /\ i < j
    /\ HasResult(i) /\ ~HasResult(j)
    /\ ~responses[c].ended

\* C6: every emitted SSE id has the form event-<n>, and the numbers are
\* strictly increasing in emission order (so no id is emitted twice).
C6_EventIdsIncrease ==
  /\ \A k \in 1..Len(EmittedIds) : HasEventIdForm(EmittedIds[k])
  /\ \A k, l \in 1..Len(EmittedIds) :
       k < l => EventNum(EmittedIds[k]) < EventNum(EmittedIds[l])

C6_Witness ==
  \E c, i, j \in Streams :
    /\ IsCall(c) /\ IsGet(i) /\ c < i /\ i < j
    /\ HasResult(i)
    /\ Len(responses[j].events) > 0

\* C7: a result event on a GET stream carries the id of the latest
\* tools/call request handled before that GET, and once it is written (and
\* no tools/call has been handled since) the pending slot is empty.
C7_ResultCorrelated ==
  \A i \in Streams :
    (IsGet(i) /\ HasResult(i)) =>
      /\ \E c \in Streams :
           /\ IsCall(c) /\ c < i /\ ~CallBetween(c, i)
           /\ \A k \in 1..Len(responses[i].events) :
                responses[i].events[k].data = "result"
                  => responses[i].events[k].jsonrpcId = responses[c].reqId
      /\ (\A k \in Streams : k > i => ~IsCall(k)) => pendingToolCallId = Null

C7_Witness ==
  \E b, c, i \in Streams :
    /\ IsCall(b) /\ IsCall(c) /\ IsGet(i) /\ b < c /\ c < i
    /\ responses[b].reqId = 1 /\ responses[c].reqId = 2
    /\ HasResult(i)
    /\ responses[i].events[2].jsonrpcId = 2
    /\ pendingToolCallId = Null

\* C8: the stream of a tools/call POST carries exactly one event, a priming
\* event whose id was not emitted before, and never the result, whatever
\* was handled since.
C8_CallStreamOnlyPriming ==
  \A c \in Streams :
    IsCall(c) =>
      /\ responses[c].status = 200
      /\ responses[c].ctype = "text/event-stream"
      /\ Len(responses[c].events) = 1
      /\ IsPriming(responses[c].events[1])
      /\ ~HasResult(c)
      /\ \A k \in 1..Len(EmittedIdsUpTo(c - 1)) :
           EmittedIdsUpTo(c - 1)[k] # responses[c].events[1].id

C8_Witness ==
  \E c, i \in Streams :
    /\ IsCall(c) /\ IsGet(i) /\ c < i
    /\ ~responses[c].ended
    /\ HasResult(i)
    /\ Len(responses[c].events) = 1

\* A tools/call stream that is ended was closed by the timer: it carries its
\* priming event, the close instant is recorded and the ledger holds the
\* OutgoingStreamClose entry.
ClosedAfterPriming ==
  \A c \in Streams :
    (IsCall(c) /\ responses[c].ended) =>
      /\ Len(responses[c].events) >= 1
      /\ IsPriming(responses[c].events[1])
      /\ toolStreamCloseTime # Null
      /\ toolStreamCloseTime >= CloseDelay
      /\ \E k \in 1..Len(checks) : checks[k].name = "OutgoingStreamClose"

\* C9: every tools/call stream is eventually ended with the close instant
\* recorded; an ended tools/call stream always carries its priming event and
\* its close is on record.
C9_StreamEventuallyClosed ==
  /\ \A n \in 1..MaxRequests :
       [](n \in Streams /\ IsCall(n)
            => <>(/\ n \in Streams
                  /\ responses[n].ended
                  /\ toolStreamCloseTime # Null))
  /\ []ClosedAfterPriming

C9_Witness ==
  \E c \in Streams :
    /\ IsCall(c) /\ responses[c].ended
    /\ toolStreamCloseTime = now
    /\ timers = {}

\* C10: a GET stream starts with a priming event whose id was not emitted
\* before; a result event follows it exactly when a tools/call is pending
\* (one was handled since the previous GET), and its number is greater than
\* the priming event's.
C10_PrimingThenResult ==
  \A i \in Streams :
    IsGet(i) =>
      LET ev == responses[i].events
      IN  /\ Len(ev) \in {1, 2}
          /\ IsPriming(ev[1])
          /\ \A k \in 1..Len(EmittedIdsUpTo(i - 1)) :
               EmittedIdsUpTo(i - 1)[k] # ev[1].id
          /\ Len(ev) = 2 <=>
               \E c \in Streams : IsCall(c) /\ c < i /\ ~GetBetween(c, i)
          /\ Len(ev) = 2 =>
               /\ ev[2].data = "result"
               /\ EventNum(ev[2].id) > EventNum(ev[1].id)

C10_Witness ==
  \E i \in Streams :
    /\ IsGet(i)
    /\ Len(responses[i].events) = 2
    /\ IsPriming(responses[i].events[1])
    /\ responses[i].events[2].data = "result"

\* ======================================================================
\* Properties of the request handling (Spec, SpecHeaders)
\* ======================================================================
\* A tools/call was handled before response i and no GET since: the pending
\* slot is filled when request i arrives.
PendingBefore(i) ==
  \E c \in Streams : IsCall(c) /\ c < i /\ ~GetBetween(c, i)

\* C11: a GET handled while the pending slot is empty is answered 200
\* text/event-stream with a priming event and nothing else; its stream is
\* never ended and nothing is written on it later, whatever is handled
\* afterwards (a tools/call included).
C11_IdleGetStream ==
  \A i \in Streams :
    (IsGet(i) /\ ~PendingBefore(i)) =>
      /\ responses[i].status = 200
      /\ responses[i].ctype = "text/event-stream"
      /\ Len(responses[i].events) = 1
      /\ IsPriming(responses[i].events[1])
      /\ ~HasResult(i)
      /\ ~responses[i].ended

C11_Witness ==
  \E i, c \in Streams :
    /\ IsGet(i) /\ ~PendingBefore(i)
    /\ IsCall(c) /\ i < c /\ responses[c].ended
    /\ Len(responses[i].events) = 1
    /\ ~responses[i].ended

\* A GET request that lacks the session id or targets another path.
Unsupported(i) ==
  IsGet(i) /\ (responses[i].reqSid = NoHeader \/ responses[i].url # "/")

\* C12 (as claimed): a GET without session id or for an unsupported path is
\* answered 405, opens no stream, mints no event id and is not counted as a
\* reconnect attempt.
C12_UnsupportedGetRejected ==
  /\ \A i \in Streams :
       Unsupported(i) =>
         /\ responses[i].status = 405
         /\ responses[i].events = <<>>
  /\ getConnectionCount =
       Cardinality({i \in Streams : IsGet(i) /\ ~Unsupported(i)})

\* C13 (as claimed): a POSTed message without an id is answered 202 without
\* body, whatever its method, and never fills the pending slot.
C13_NotificationAccepted ==
  /\ \A i \in Streams :
       responses[i].reqId = Undefined =>
         /\ responses[i].status = 202
         /\ responses[i].ctype = ""
         /\ responses[i].events = <<>>
  /\ pendingToolCallId # Undefined

\* C14 (as claimed): the session id never changes and every response sent
\* after the initialize response carries it in mcp-session-id.
C14_SessionEchoed ==
  /\ sessionId = "session-0"
  /\ \A i, j \in Streams :
       (responses[i].kind = "initialize" /\ i <= j)
         => responses[j].sid = sessionId

\* Before entry g of the ledger a tools/call stream was closed and a GET was
\* received after that.
ReconnectedAfterClose(g) ==
  \E k, m \in 1..(g - 1) :
    /\ k < m
    /\ checks[k].name = "OutgoingStreamClose"
    /\ checks[m].name = "IncomingRequest"
    /\ checks[m].details.method = "GET"

\* C15 (as claimed): ClientGracefulReconnect is FAILURE when no GET was
\* received after the close of the tools/call stream and SUCCESS only when
\* one was; with FAILURE neither ClientRespectsRetryField nor
\* ClientSendsLastEventId is emitted.
C15_GracefulReconnectVerdict ==
  \A g \in 1..Len(checks) :
    checks[g].name = "ClientGracefulReconnect" =>
      /\ checks[g].status \in {"SUCCESS", "FAILURE"}
      /\ checks[g].status = "SUCCESS" <=> ReconnectedAfterClose(g)
      /\ checks[g].status = "FAILURE" =>
           \A k \in 1..Len(checks) :
             checks[k].name \notin {"ClientRespectsRetryField",
                                    "ClientSendsLastEventId"}

\* The Last-Event-ID values of the GET requests recorded in a ledger, in the
\* order of the ledger.
RECURSIVE CarriedIds(_)
CarriedIds(ledger) ==
  IF ledger = <<>> THEN <<>>
  ELSE LET c == Head(ledger)
       IN  (IF /\ c.name = "IncomingRequest"
               /\ c.details.method = "GET"
               /\ c.details.lastEventId # NoHeader
              THEN <<c.details.lastEventId>> ELSE <<>>)
           \o CarriedIds(Tail(ledger))

\* C16: once a GET was received, getChecks emits ClientSendsLastEventId as
\* SUCCESS when a GET carried Last-Event-ID and as WARNING, never FAILURE,
\* when none did; the values it records are those of the GETs that carried
\* one, in arrival order.
C16_LastEventIdVerdict ==
  /\ (GetChecksCalls = 1 /\ getConnectionCount >= 1) =>
       \E g \in 1..Len(checks) : checks[g].name = "ClientSendsLastEventId"
  /\ \A g \in 1..Len(checks) :
       checks[g].name = "ClientSendsLastEventId" =>
         LET carried == CarriedIds(SubSeq(checks, 1, g - 1))
         IN  /\ checks[g].status \in {"SUCCESS", "WARNING"}
             /\ checks[g].status = "SUCCESS" <=> carried # <<>>
             /\ checks[g].details.lastEventIds = carried

C16_Witness ==
  \E g \in 1..Len(checks) :
    /\ checks[g].name = "ClientSendsLastEventId"
    /\ checks[g].status = "SUCCESS"
    /\ checks[g].details.lastEventIds = <<"event-2", "event-1">>
    /\ checks[g].details.getConnectionCount = 3

\* The statuses of the ledger entries of one name.
StatusesOf(name) ==
  {checks[g].status : g \in {k \in 1..Len(checks) : checks[k].name = name}}

\* initialize, tools/call, close by the timer, then one GET with
\* Last-Event-ID that arrives inside the tolerance window, then getChecks.
ConformantTrace ==
  /\ Len(responses) = 3
  /\ responses[1].kind = "initialize"
  /\ IsCall(2) /\ responses[2].ended
  /\ IsGet(3)
  /\ lastEventIds # <<>>
  /\ toolStreamCloseTime # Null
  /\ getReconnectionTime - toolStreamCloseTime >= retryValue - EARLY_TOLERANCE
  /\ getReconnectionTime - toolStreamCloseTime <= retryValue + LATE_TOLERANCE
  /\ GetChecksCalls = 1

\* C17: after a conformant trace the three verdicts are SUCCESS and the GET
\* stream delivered the result of the call.
C17_ConformantRun ==
  ConformantTrace =>
    /\ StatusesOf("ClientGracefulReconnect") = {"SUCCESS"}
    /\ StatusesOf("ClientRespectsRetryField") = {"SUCCESS"}
    /\ StatusesOf("ClientSendsLastEventId") = {"SUCCESS"}
    /\ \A g \in 1..Len(checks) : checks[g].status \notin {"FAILURE", "WARNING"}
    /\ HasResult(3)
    /\ responses[3].events[Len(responses[3].events)].jsonrpcId = 1
    /\ ~HasResult(2)

C17_Witness ==
  /\ ConformantTrace
  /\ getReconnectionTime - toolStreamCloseTime = 540
  /\ HasResult(3)

\* ======================================================================
\* Part 2: the polling prober, ServerSSEPollingScenario.run
\* (src/scenarios/server/sse-polling.ts).  The server under test is the
\* environment: it decides how connect, the two fetches, the reads and close
\* turn out.  One action per stretch of run() between two awaits.
\* ======================================================================
\* Longest event sequence a stream delivers in the model.
MaxEvents == 2

\* What the handshake can yield as session id.
SessionIds == {"", "session-0"}

\* Events the EventSourceParserStream of the POST stream can return.  data:
\* "" and " " and "{}" as they are, "result-1" a JSON-RPC response with id 1
\* and a result, "error-result-1" the same with result.isError, "result-2"
\* a response with another id, "text" something that is not JSON.
PostEvents ==
  {[id |-> "e1", data |-> "", retry |-> 500],
   [id |-> "e1", data |-> "", retry |-> Null],
   [id |-> "", data |-> "", retry |-> Null],
   [id |-> "e2", data |-> "{}", retry |-> Null],
   [id |-> "e2", data |-> "result-1", retry |-> Null],
   [id |-> "", data |-> "result-1", retry |-> Null],
   [id |-> "e2", data |-> "error-result-1", retry |-> Null],
   [id |-> "e3", data |-> "result-2", retry |-> Null],
   [id |-> "", data |-> "text", retry |-> Null],
   [id |-> "e3", data |-> " ", retry |-> Null]}

\* Events the GET stream can return.
GetEvents ==
  {[id |-> "e4", data |-> "", retry |-> Null],
   [id |-> "e5", data |-> "result-1", retry |-> Null],
   [id |-> "", data |-> "result-1", retry |-> Null],
   [id |-> "e5", data |-> "result-2", retry |-> Null],
   [id |-> "", data |-> "text", retry |-> Null]}

\* Answers to the two fetches.
PostStatuses == {200, 400, 404, 500}
GetStatuses == {200, 405, 500}
ContentTypes == {"text/event-stream", "application/json", ""}

\* response.ok
Ok(status) == status >= 200 /\ status <= 299

\* Variant: only the empty string counts as priming data.
IsPrimingData_emptyOnly(data) == data = ""

\* event.data === '' || event.data === '{}' || event.data.trim() === ''
IsPrimingData(data) == data \in {"", "{}", " "}

\* `if (event.data)` and JSON.parse succeeds and parsed.id === 1 &&
\* parsed.result
IsToolResponse(data) == data \in {"result-1", "error-result-1"}

\* parsed.result?.isError === true
IsErrorResult(data) == data = "error-result-1"

\* ---------------------------------------------------------- loggingFetch
\* Variant: the POST always names a session.
PostRequest_fixedSession(sid) ==
  [method |-> "POST", sid |-> "session-0", lastEventId |-> "",
   jsonrpcMethod |-> "tools/call", jsonrpcId |-> 1]

\* The request handed to fetch().
PostRequest(sid) ==
  [method |-> "POST", sid |-> sid, lastEventId |-> "",
   jsonrpcMethod |-> "tools/call", jsonrpcId |-> 1]

GetRequest(sid, lastId) ==
  [method |-> "GET", sid |-> sid, lastEventId |-> lastId,
   jsonrpcMethod |-> "", jsonrpcId |-> Undefined]

\* The entry pushed before fetch is called.
OutgoingRequest(request) ==
  Check("OutgoingRequest", "INFO", "", request)

\* The entry pushed once fetch has resolved.
IncomingResponse(method, status, ctype) ==
  Check("IncomingResponse", "INFO", "",
        [method |-> method, statusCode |-> status, contentType |-> ctype])

\* ------------------------------------------------- catch and finally
\* Variant: the catch block reports the error twice.
Caught_twice(ledger, message) ==
  ledger \o <<Check("ServerSSEPollingTest", "FAILURE", "Error: " \o message, <<>>),
              Check("ServerSSEPollingTest", "FAILURE", "Error: " \o message, <<>>)>>

\* Variant: the catch block starts the ledger afresh.
Caught_dropsEarlier(ledger, message) ==
  <<Check("ServerSSEPollingTest", "FAILURE", "Error: " \o message, <<>>)>>

\* Variant: the response entry is written even though fetch gave none.
Caught_logsResponse(ledger, message) ==
  ledger \o <<IncomingResponse("", 0, ""),
              Check("ServerSSEPollingTest", "FAILURE", "Error: " \o message, <<>>)>>

\* catch (error): one FAILURE entry with the error text.
Caught(ledger, message) ==
  Append(ledger,
         Check("ServerSSEPollingTest", "FAILURE", "Error: " \o message, <<>>))

\* finally: `if (client)` await client.close(), else straight to the return.
AfterTry(c) == IF c # "undefined" THEN "cleanup" ELSE "returned"

\* ------------------------------------------------------------ step 1
\* new Client, new StreamableHTTPClientTransport(new URL(serverUrl)),
\* client.connect, session id, and - when all went well - the first half of
\* loggingFetch for the tools/call POST, up to the await of fetch.
Connect(outcome, sid) ==
  /\ pc = "start"
  /\ client' = CASE outcome = "client-throws" -> "undefined"
                 [] outcome \in {"url-throws", "connect-throws"} -> "created"
                 [] OTHER -> "connected"
  /\ IF outcome = "ok"
       THEN /\ probeSessionId' = sid
            /\ probeChecks' =
                 (IF sid = ""
                    THEN <<Check("ServerSSEPollingSession", "WARNING", "", <<>>)>>
                    ELSE <<>>)
                 \o <<OutgoingRequest(PostRequest(sid))>>
            /\ sent' = Append(sent, PostRequest(sid))
            /\ pc' = "post"
            /\ error' = error
       ELSE /\ error' = outcome
            /\ probeChecks' = Caught(probeChecks, outcome)
            /\ pc' = AfterTry(client')
            /\ UNCHANGED <<probeSessionId, sent>>
  /\ UNCHANGED <<closeCalls, hasEventId, hasPrimingEvent, primingEventIsFirst,
                 hasRetryField, probeRetryValue, probeLastEventId, eventCount,
                 receivedToolResponse, reader, timeout, reconnectReader,
                 reconnectTimeout, decoded, redecoded>>
  /\ UNCHANGED <<testerVars, harnessVars, authVars>>

\* ------------------------------------------------------------ step 2
\* Variant: a JSON answer is reported as WARNING.
PostVerdict_jsonWarning(status, ctype, hasBody) ==
  CASE ~Ok(status) /\ status \in {400, 404} ->
         <<Check("ServerTestReconnectionTool", "WARNING",
                 "Server does not implement test_reconnection tool",
                 [statusCode |-> status])>>
    [] ~Ok(status) /\ status \notin {400, 404} ->
         <<Check("ServerSSEPostRequest", "FAILURE",
                 "Server returned HTTP " \o ToString(status),
                 [statusCode |-> status])>>
    [] Ok(status) /\ ctype # "text/event-stream" ->
         <<Check("ServerSSEContentType", "WARNING", "", [contentType |-> ctype])>>
    [] Ok(status) /\ ctype = "text/event-stream" /\ ~hasBody ->
         <<Check("ServerSSEPollingStream", "FAILURE", "Response body is null",
                 <<>>)>>
    [] OTHER -> <<>>

\* The entry pushed for a POST answer the prober stops at, "" when it reads on.
PostVerdict(status, ctype, hasBody) ==
  CASE ~Ok(status) /\ status \in {400, 404} ->
         <<Check("ServerTestReconnectionTool", "WARNING",
                 "Server does not implement test_reconnection tool",
                 [statusCode |-> status])>>
    [] ~Ok(status) /\ status \notin {400, 404} ->
         <<Check("ServerSSEPostRequest", "FAILURE",
                 "Server returned HTTP " \o ToString(status),
                 [statusCode |-> status])>>
    [] Ok(status) /\ ctype # "text/event-stream" ->
         <<Check("ServerSSEContentType", "INFO", "", [contentType |-> ctype])>>
    [] Ok(status) /\ ctype = "text/event-stream" /\ ~hasBody ->
         <<Check("ServerSSEPollingStream", "FAILURE", "Response body is null",
                 <<>>)>>
    [] OTHER -> <<>>

\* fetch resolved: second half of loggingFetch, the status, content-type and
\* body tests, and either an early return or the reader and the 10 s timer.
PostResponds(status, ctype, hasBody) ==
  /\ pc = "post"
  /\ probeChecks' = probeChecks \o <<IncomingResponse("POST", status, ctype)>>
                      \o PostVerdict(status, ctype, hasBody)
  /\ IF PostVerdict(status, ctype, hasBody) = <<>>
       THEN /\ pc' = "read"
            /\ reader' = "open"
            /\ timeout' = "armed"
       ELSE /\ pc' = AfterTry(client)
            /\ UNCHANGED <<reader, timeout>>
  /\ UNCHANGED <<probeSessionId, client, closeCalls, error, hasEventId,
                 hasPrimingEvent, primingEventIsFirst, hasRetryField,
                 probeRetryValue, probeLastEventId, eventCount,
                 receivedToolResponse, reconnectReader, reconnectTimeout,
                 sent, decoded, redecoded>>
  /\ UNCHANGED <<testerVars, harnessVars, authVars>>

\* fetch rejected: loggingFetch throws after its first push, the top-level
\* catch takes over.
PostFails ==
  /\ pc = "post"
  /\ error' = "fetch failed"
  /\ probeChecks' = Caught(probeChecks, "fetch failed")
  /\ pc' = AfterTry(client)
  /\ UNCHANGED <<probeSessionId, client, closeCalls, hasEventId,
                 hasPrimingEvent, primingEventIsFirst, hasRetryField,
                 probeRetryValue, probeLastEventId, eventCount,
                 receivedToolResponse, reader, timeout, reconnectReader,
                 reconnectTimeout, sent, decoded, redecoded>>
  /\ UNCHANGED <<testerVars, harnessVars, authVars>>

\* ------------------------------------------------------------ step 3
\* The entries one pass of the read loop pushes for event e; retrySeen and
\* retryMs are hasRetryField and retryValue once onRetry has run for e.
ReadChecks(e, retrySeen, retryMs) ==
  (IF e.id # ""
     THEN <<Check("IncomingSseEvent", "INFO", "",
                  [eventId |-> e.id, isPriming |-> IsPrimingData(e.data),
                   hasRetryField |-> retrySeen, retryValue |-> retryMs,
                   data |-> e.data])>>
     ELSE <<>>)
  \o (IF IsToolResponse(e.data)
        THEN <<Check("IncomingSseEvent",
                     IF IsErrorResult(e.data) THEN "FAILURE" ELSE "INFO",
                     IF IsErrorResult(e.data) THEN "Tool call failed" ELSE "",
                     [eventId |-> e.id, body |-> e.data])>>
        ELSE <<>>)

\* `if (event.id) { ... lastEventId = event.id`
LastEventIdAfter(last, e) == IF e.id # "" THEN e.id ELSE last

\* reader.read() resolved with an event: one pass of the loop body.
ReadEvent(e) ==
  /\ pc = "read"
  /\ reader = "open"
  /\ Len(decoded) < MaxEvents
  /\ decoded' = Append(decoded, e)
  /\ eventCount' = eventCount + 1
  /\ hasRetryField' = (hasRetryField \/ e.retry # Null)
  /\ probeRetryValue' = IF e.retry # Null THEN e.retry ELSE probeRetryValue
  /\ hasEventId' = (hasEventId \/ e.id # "")
  /\ probeLastEventId' = LastEventIdAfter(probeLastEventId, e)
  /\ hasPrimingEvent' =
       (hasPrimingEvent \/ (e.id # "" /\ IsPrimingData(e.data)))
  /\ primingEventIsFirst' =
       (primingEventIsFirst
          \/ (e.id # "" /\ IsPrimingData(e.data) /\ eventCount' = 1))
  /\ receivedToolResponse' = (receivedToolResponse \/ IsToolResponse(e.data))
  /\ probeChecks' = probeChecks \o ReadChecks(e, hasRetryField', probeRetryValue')
  /\ UNCHANGED <<pc, probeSessionId, client, closeCalls, error, reader,
                 timeout, reconnectReader, reconnectTimeout, sent, redecoded>>
  /\ UNCHANGED <<testerVars, harnessVars, authVars>>

\* Variant: cancel() leaves the reader as it is.
Cancel_ignored(r) == r

\* reader.cancel(): the pending and every later read() resolves with done.
Cancel(r) == "cancelled"

\* The 10 s timer fires while the loop waits: reader.cancel().
Timeout ==
  /\ pc = "read"
  /\ timeout = "armed"
  /\ timeout' = "fired"
  /\ reader' = Cancel(reader)
  /\ UNCHANGED <<pc, probeChecks, probeSessionId, client, closeCalls, error,
                 hasEventId, hasPrimingEvent, primingEventIsFirst,
                 hasRetryField, probeRetryValue, probeLastEventId, eventCount,
                 receivedToolResponse, reconnectReader, reconnectTimeout,
                 sent, decoded, redecoded>>
  /\ UNCHANGED <<testerVars, harnessVars, authVars>>

\* reader.read() rejected: the inner finally clears the timer, the top-level
\* catch takes over.
ReadFails ==
  /\ pc = "read"
  /\ reader = "open"
  /\ reader' = "errored"
  /\ timeout' = "cleared"
  /\ error' = "read failed"
  /\ probeChecks' = Caught(probeChecks, "read failed")
  /\ pc' = AfterTry(client)
  /\ UNCHANGED <<probeSessionId, client, closeCalls, hasEventId,
                 hasPrimingEvent, primingEventIsFirst, hasRetryField,
                 probeRetryValue, probeLastEventId, eventCount,
                 receivedToolResponse, reconnectReader, reconnectTimeout,
                 sent, decoded, redecoded>>
  /\ UNCHANGED <<testerVars, harnessVars, authVars>>

\* The StreamClosed entry and checks 1 and 2.
StreamClosedChecks ==
  <<Check("StreamClosed", "INFO", "",
          [eventCount |-> eventCount, lastEventId |-> probeLastEventId,
           receivedToolResponse |-> receivedToolResponse]),
    Check("ServerSendsPrimingEvent",
          IF hasPrimingEvent /\ primingEventIsFirst THEN "SUCCESS" ELSE "WARNING",
          CASE ~hasPrimingEvent -> "Server did not send priming event"
            [] hasPrimingEvent /\ ~primingEventIsFirst ->
                 "Priming event was not sent first"
            [] OTHER -> "",
          [hasPrimingEvent |-> hasPrimingEvent,
           primingEventIsFirst |-> primingEventIsFirst,
           hasEventId |-> hasEventId, lastEventId |-> probeLastEventId,
           eventCount |-> eventCount]),
    Check("ServerSendsRetryField",
          IF hasRetryField THEN "SUCCESS" ELSE "WARNING",
          IF hasRetryField THEN "" ELSE "Server did not send retry field",
          [hasRetryField |-> hasRetryField, retryValue |-> probeRetryValue])>>

\* Variant: resumption is attempted without a session id too.
ShouldResume_noSession(received, lastId, sid) ==
  ~received /\ lastId # ""

\* Step 4: `!receivedToolResponse && lastEventId && sessionId`
ShouldResume(received, lastId, sid) ==
  ~received /\ lastId # "" /\ sid # ""

\* Variant: a run that sends no GET reports a WARNING.
NoResumeCheck_warning(received) ==
  Check("ServerDisconnectResume", "WARNING", "",
        [message |-> IF received
                       THEN "Tool response received on initial POST stream"
                       ELSE "Could not test disconnect/resume"])

\* The ServerDisconnectResume entry of a run that sends no GET.
NoResumeCheck(received) ==
  Check("ServerDisconnectResume", "INFO", "",
        [message |-> IF received
                       THEN "Tool response received on initial POST stream"
                       ELSE "Could not test disconnect/resume"])

\* reader.read() resolved with done (the server ended the stream, or the
\* reader was cancelled): the loop breaks, the timer is cleared, StreamClosed
\* and checks 1 and 2 are pushed, and step 4 either starts loggingFetch for
\* the GET or pushes its INFO entry and leaves the try block.
ReadDone ==
  /\ pc = "read"
  /\ reader \in {"open", "cancelled"}
  /\ reader' = IF reader = "open" THEN "done" ELSE reader
  /\ timeout' = "cleared"
  /\ IF ShouldResume(receivedToolResponse, probeLastEventId, probeSessionId)
       THEN /\ probeChecks' = probeChecks \o StreamClosedChecks
                 \o <<OutgoingRequest(GetRequest(probeSessionId, probeLastEventId))>>
            /\ sent' = Append(sent, GetRequest(probeSessionId, probeLastEventId))
            /\ pc' = "get"
       ELSE /\ probeChecks' = probeChecks \o StreamClosedChecks
                 \o <<NoResumeCheck(receivedToolResponse)>>
            /\ sent' = sent
            /\ pc' = AfterTry(client)
  /\ UNCHANGED <<probeSessionId, client, closeCalls, error, hasEventId,
                 hasPrimingEvent, primingEventIsFirst, hasRetryField,
                 probeRetryValue, probeLastEventId, eventCount,
                 receivedToolResponse, reconnectReader, reconnectTimeout,
                 decoded, redecoded>>
  /\ UNCHANGED <<testerVars, harnessVars, authVars>>

\* ------------------------------------------------------------ step 4
\* The ServerDisconnectResume entry after the GET stream was read.
ResumeCheck(received) ==
  Check("ServerDisconnectResume",
        IF received THEN "SUCCESS" ELSE "WARNING",
        IF received THEN "" ELSE "Server did not send tool response after client reconnected with Last-Event-ID",
        [lastEventIdUsed |-> probeLastEventId, receivedToolResponse |-> received])

\* Variant: a 405 answer is reported like any other refusal.
RefusedCheck_warning(status) ==
  Check("ServerDisconnectResume", "WARNING",
        "Server did not accept reconnection with Last-Event-ID",
        [statusCode |-> status])

\* The ServerDisconnectResume entry for a GET answer that cannot be read.
RefusedCheck(status) ==
  IF status = 405
    THEN Check("ServerDisconnectResume", "INFO", "", [statusCode |-> status])
    ELSE Check("ServerDisconnectResume", "WARNING",
               "Server did not accept reconnection with Last-Event-ID",
               [statusCode |-> status])

\* fetch of the GET resolved: second half of loggingFetch, then
\* `getResponse.ok && getResponse.body`.
GetResponds(status, hasBody) ==
  /\ pc = "get"
  /\ IF Ok(status) /\ hasBody
       THEN /\ probeChecks' = Append(probeChecks, IncomingResponse("GET", status, ""))
            /\ reconnectReader' = "open"
            /\ reconnectTimeout' = "armed"
            /\ pc' = "reread"
       ELSE /\ probeChecks' = probeChecks
                 \o <<IncomingResponse("GET", status, ""), RefusedCheck(status)>>
            /\ pc' = AfterTry(client)
            /\ UNCHANGED <<reconnectReader, reconnectTimeout>>
  /\ UNCHANGED <<probeSessionId, client, closeCalls, error, hasEventId,
                 hasPrimingEvent, primingEventIsFirst, hasRetryField,
                 probeRetryValue, probeLastEventId, eventCount,
                 receivedToolResponse, reader, timeout, sent, decoded,
                 redecoded>>
  /\ UNCHANGED <<testerVars, harnessVars, authVars>>

\* fetch of the GET rejected.
GetFails ==
  /\ pc = "get"
  /\ error' = "fetch failed"
  /\ probeChecks' = Caught(probeChecks, "fetch failed")
  /\ pc' = AfterTry(client)
  /\ UNCHANGED <<probeSessionId, client, closeCalls, hasEventId,
                 hasPrimingEvent, primingEventIsFirst, hasRetryField,
                 probeRetryValue, probeLastEventId, eventCount,
                 receivedToolResponse, reader, timeout, reconnectReader,
                 reconnectTimeout, sent, decoded, redecoded>>
  /\ UNCHANGED <<testerVars, harnessVars, authVars>>

\* The entry pushed for every event of the GET stream.
RereadCheck(e) ==
  Check("IncomingSseEvent", "INFO", "",
        [eventId |-> e.id, onGet |-> TRUE, data |-> e.data])

\* reconnectReader.read() resolved with an event: one pass of the loop body;
\* on the tool response the loop breaks, the timer is cleared and the verdict
\* is pushed.
RereadEvent(e) ==
  /\ pc = "reread"
  /\ reconnectReader = "open"
  /\ Len(redecoded) < MaxEvents
  /\ redecoded' = Append(redecoded, e)
  /\ IF IsToolResponse(e.data)
       THEN /\ receivedToolResponse' = TRUE
            /\ reconnectTimeout' = "cleared"
            /\ probeChecks' = probeChecks \o <<RereadCheck(e), ResumeCheck(TRUE)>>
            /\ pc' = AfterTry(client)
       ELSE /\ probeChecks' = Append(probeChecks, RereadCheck(e))
            /\ UNCHANGED <<receivedToolResponse, reconnectTimeout, pc>>
  /\ UNCHANGED <<probeSessionId, client, closeCalls, error, hasEventId,
                 hasPrimingEvent, primingEventIsFirst, hasRetryField,
                 probeRetryValue, probeLastEventId, eventCount, reader,
                 timeout, reconnectReader, sent, decoded>>
  /\ UNCHANGED <<testerVars, harnessVars, authVars>>

\* The 5 s timer fires while the loop waits: reconnectReader.cancel().
ReconnectTimeout ==
  /\ pc = "reread"
  /\ reconnectTimeout = "armed"
  /\ reconnectTimeout' = "fired"
  /\ reconnectReader' = Cancel(reconnectReader)
  /\ UNCHANGED <<pc, probeChecks, probeSessionId, client, closeCalls, error,
                 hasEventId, hasPrimingEvent, primingEventIsFirst,
                 hasRetryField, probeRetryValue, probeLastEventId, eventCount,
                 receivedToolResponse, reader, timeout, sent, decoded,
                 redecoded>>
  /\ UNCHANGED <<testerVars, harnessVars, authVars>>

\* reconnectReader.read() resolved with done.
RereadDone ==
  /\ pc = "reread"
  /\ reconnectReader \in {"open", "cancelled"}
  /\ reconnectReader' = IF reconnectReader = "open" THEN "done" ELSE reconnectReader
  /\ reconnectTimeout' = "cleared"
  /\ probeChecks' = Append(probeChecks, ResumeCheck(receivedToolResponse))
  /\ pc' = AfterTry(client)
  /\ UNCHANGED <<probeSessionId, client, closeCalls, error, hasEventId,
                 hasPrimingEvent, primingEventIsFirst, hasRetryField,
                 probeRetryValue, probeLastEventId, eventCount,
                 receivedToolResponse, reader, timeout, sent, decoded,
                 redecoded>>
  /\ UNCHANGED <<testerVars, harnessVars, authVars>>

\* reconnectReader.read() rejected.
RereadFails ==
  /\ pc = "reread"
  /\ reconnectReader = "open"
  /\ reconnectReader' = "errored"
  /\ reconnectTimeout' = "cleared"
  /\ error' = "read failed"
  /\ probeChecks' = Caught(probeChecks, "read failed")
  /\ pc' = AfterTry(client)
  /\ UNCHANGED <<probeSessionId, client, closeCalls, hasEventId,
                 hasPrimingEvent, primingEventIsFirst, hasRetryField,
                 probeRetryValue, probeLastEventId, eventCount,
                 receivedToolResponse, reader, timeout, sent, decoded,
                 redecoded>>
  /\ UNCHANGED <<testerVars, harnessVars, authVars>>

\* ----------------------------------------------------------- finally
\* Variant: an error of close() escapes run().
AfterClose_propagates(threw) == IF threw THEN "threw" ELSE "returned"

\* `try { await client.close() } catch { }`, then `return checks`.
AfterClose(threw) == "returned"

\* await client.close() settled, with or without an error.
Close(threw) ==
  /\ pc = "cleanup"
  /\ closeCalls' = closeCalls + 1
  /\ client' = "closed"
  /\ pc' = AfterClose(threw)
  /\ UNCHANGED <<probeChecks, probeSessionId, error, hasEventId,
                 hasPrimingEvent, primingEventIsFirst, hasRetryField,
                 probeRetryValue, probeLastEventId, eventCount,
                 receivedToolResponse, reader, timeout, reconnectReader,
                 reconnectTimeout, sent, decoded, redecoded>>
  /\ UNCHANGED <<testerVars, harnessVars, authVars>>

\* One run of the prober against every server behaviour of the input sets.
NextProber ==
  \/ \E o \in {"ok", "client-throws", "url-throws", "connect-throws"} :
       \E sid \in SessionIds : Connect(o, sid)
  \/ \E st \in PostStatuses : \E ct \in ContentTypes : \E b \in BOOLEAN :
       PostResponds(st, ct, b)
  \/ PostFails
  \/ \E e \in PostEvents : ReadEvent(e)
  \/ Timeout
  \/ ReadFails
  \/ ReadDone
  \/ \E st \in GetStatuses : \E b \in BOOLEAN : GetResponds(st, b)
  \/ GetFails
  \/ \E e \in GetEvents : RereadEvent(e)
  \/ ReconnectTimeout
  \/ RereadDone
  \/ RereadFails
  \/ \E threw \in BOOLEAN : Close(threw)

SpecProber == Init /\ [][NextProber]_vars

\* The prober where what the runtime guarantees does happen: an armed timer
\* fires, a read on a cancelled reader resolves; and where the server
\* answers the GET one way or the other and close() settles.  Nothing makes
\* the server end a stream or send an event.
SpecProberLive ==
  /\ Init /\ [][NextProber]_vars
  /\ WF_vars(Timeout)
  /\ WF_vars(ReconnectTimeout)
  /\ WF_vars(reader = "cancelled" /\ ReadDone)
  /\ WF_vars(reconnectReader = "cancelled" /\ RereadDone)
  /\ WF_vars((\E st \in GetStatuses : \E b \in BOOLEAN : GetResponds(st, b))
               \/ GetFails)
  /\ WF_vars(\E threw \in BOOLEAN : Close(threw))

\* ======================================================================
\* Part 3: the multi-stream tester, ServerSSEMultipleStreamsScenario.run
\* (part_002:22-267).  One action per stretch of run() between two awaits;
\* the server under test is the environment.
\* ======================================================================
\* Answers to one of the concurrent POSTs.
TesterStatuses == {200, 202, 500}
TesterContentTypes == {"text/event-stream", "application/json"}

\* How the test of one stream can end: an event was read, the stream ended
\* first, the 2 s timer won the race, read() rejected, cancel() rejected.
ReadOutcomes == {"event", "ended", "timeout", "read-error", "cancel-error"}

\* Variant: every request carries the id 1000.
TesterRequest_sameId(sid, i) ==
  [method |-> "POST", sid |-> sid, lastEventId |-> "",
   jsonrpcMethod |-> "tools/list", jsonrpcId |-> 1000]

\* The request of loop index i.
TesterRequest(sid, i) ==
  [method |-> "POST", sid |-> sid, lastEventId |-> "",
   jsonrpcMethod |-> "tools/list", jsonrpcId |-> 1000 + i]

\* The requests the for loop launches, in launch order.
LaunchedRequests(sid) == [k \in 1..numStreams |-> TesterRequest(sid, k - 1)]

\* catch (error) of the tester.
TesterCaught(ledger, message) ==
  Append(ledger,
         Check("ServerSSEMultipleStreamsTest", "FAILURE",
               "Error: " \o message, <<>>))

\* Step 1, and for a session the launch of all POSTs up to the await of
\* Promise.all; without a session id the WARNING entry and the return.
TesterConnect(outcome, sid) ==
  /\ testerPc = "start"
  /\ testerClient' = CASE outcome = "client-throws" -> "undefined"
                       [] outcome \in {"url-throws", "connect-throws"} -> "created"
                       [] OTHER -> "connected"
  /\ IF outcome = "ok"
       THEN /\ testerSessionId' = sid
            /\ testerError' = testerError
            /\ IF sid = ""
                 THEN /\ testerChecks' =
                           Append(testerChecks,
                                  Check("ServerSSEMultipleStreamsSession",
                                        "WARNING", "", <<>>))
                      /\ testerPc' = AfterTry(testerClient')
                      /\ posted' = posted
                 ELSE /\ posted' = posted \o LaunchedRequests(sid)
                      /\ testerPc' = "posts"
                      /\ testerChecks' = testerChecks
       ELSE /\ testerError' = outcome
            /\ testerChecks' = TesterCaught(testerChecks, outcome)
            /\ testerPc' = AfterTry(testerClient')
            /\ UNCHANGED <<testerSessionId, posted>>
  /\ UNCHANGED <<testerCloseCalls, streamResponses, eventResults, readers>>
  /\ UNCHANGED <<proberVars, harnessVars, authVars>>

\* contentType?.includes('text/event-stream')
IsSse(r) == r.ctype = "text/event-stream"

\* The ServerAcceptsMultiplePostStreams entry.
AcceptCheck(rs) ==
  LET allAccepted == \A i \in StreamIndices : Ok(rs[i].status)
  IN  Check("ServerAcceptsMultiplePostStreams",
            IF allAccepted THEN "SUCCESS" ELSE "FAILURE",
            IF allAccepted THEN "" ELSE "Server rejected some requests",
            [numStreamsAttempted |-> numStreams,
             numStreamsAccepted |->
               Cardinality({i \in StreamIndices : rs[i].status = 200}),
             numSseStreams |-> Cardinality({i \in StreamIndices : IsSse(rs[i])}),
             statuses |-> [i \in StreamIndices |-> rs[i].status]])

\* What the callback of step 3 does with response r before its first await.
FirstResult(r) ==
  IF ~IsSse(r) THEN "json"
  ELSE IF ~Ok(r.status) \/ ~r.hasBody THEN "unavailable"
  ELSE "reading"

\* 'error' in r
HasError(result) == result \in {"unavailable", "read-error", "cancel-error"}

\* Variant: a partly working set of streams counts as working.
StreamsVerdict_lenient(sseStreams, functionalSseStreams) ==
  IF functionalSseStreams > 0 THEN "SUCCESS" ELSE "FAILURE"

\* functionalSseStreams === sseStreams ? SUCCESS : > 0 ? WARNING : FAILURE
StreamsVerdict(sseStreams, functionalSseStreams) ==
  IF functionalSseStreams = sseStreams THEN "SUCCESS"
  ELSE IF functionalSseStreams > 0 THEN "WARNING"
  ELSE "FAILURE"

\* The ServerSSEStreamsFunctional entry.
FunctionalCheck(rs, results) ==
  LET sseStreams == Cardinality({i \in StreamIndices : IsSse(rs[i])})
      functionalSseStreams ==
        Cardinality({i \in StreamIndices :
                       results[i] # "json" /\ ~HasError(results[i])})
  IN  IF sseStreams > 0
        THEN Check("ServerSSEStreamsFunctional",
                   StreamsVerdict(sseStreams, functionalSseStreams),
                   IF functionalSseStreams < sseStreams
                     THEN "Only some SSE streams were functional" ELSE "",
                   [numSseStreams |-> sseStreams,
                    functionalSseStreams |-> functionalSseStreams,
                    results |-> results])
        ELSE Check("ServerSSEStreamsFunctional", "INFO", "",
                   [numSseStreams |-> 0, functionalSseStreams |-> 0,
                    results |-> results])

\* Variant: the verdict is taken as soon as the first stream has settled.
Settled_first(results) == results[0] # "reading"

\* All stream tests have settled.
Settled(results) == \A i \in StreamIndices : results[i] # "reading"

\* The response of request i arrives.  With the last one Promise.all
\* resolves: the acceptance entry is pushed and the stream tests start; if
\* none of them has to wait, the verdict is pushed and the try block left.
TesterResponse(i, status, ctype, hasBody) ==
  /\ testerPc = "posts"
  /\ ~streamResponses[i].arrived
  /\ streamResponses' =
       [streamResponses EXCEPT ![i] =
          [arrived |-> TRUE, status |-> status, ctype |-> ctype,
           hasBody |-> hasBody]]
  /\ IF \A k \in StreamIndices : streamResponses'[k].arrived
       THEN /\ eventResults' =
                 [k \in StreamIndices |-> FirstResult(streamResponses'[k])]
            /\ readers' =
                 [k \in StreamIndices |->
                    IF eventResults'[k] = "reading" THEN "open" ELSE "none"]
            /\ IF Settled(eventResults')
                 THEN /\ testerChecks' = testerChecks
                           \o <<AcceptCheck(streamResponses'),
                                FunctionalCheck(streamResponses', eventResults')>>
                      /\ testerPc' = AfterTry(testerClient)
                 ELSE /\ testerChecks' =
                           Append(testerChecks, AcceptCheck(streamResponses'))
                      /\ testerPc' = "reads"
       ELSE UNCHANGED <<eventResults, readers, testerChecks, testerPc>>
  /\ UNCHANGED <<testerSessionId, testerClient, testerCloseCalls, testerError,
                 posted>>
  /\ UNCHANGED <<proberVars, harnessVars, authVars>>

\* One of the fetches rejects: Promise.all rejects, the top-level catch
\* takes over.
TesterPostFails(i) ==
  /\ testerPc = "posts"
  /\ ~streamResponses[i].arrived
  /\ testerError' = "fetch failed"
  /\ testerChecks' = TesterCaught(testerChecks, "fetch failed")
  /\ testerPc' = AfterTry(testerClient)
  /\ UNCHANGED <<testerSessionId, testerClient, testerCloseCalls, posted,
                 streamResponses, eventResults, readers>>
  /\ UNCHANGED <<proberVars, harnessVars, authVars>>

\* The reader of stream i after its test: cancelled when reader.cancel()
\* was reached and resolved.
ReaderAfter(outcome) ==
  CASE outcome \in {"event", "ended", "timeout"} -> "cancelled"
    [] outcome = "read-error" -> "errored"
    [] OTHER -> "cancel-failed"

\* The test of stream i settles: the race is decided, reader.cancel() is
\* awaited, errors are caught by the callback's own try.  With the last one
\* the verdict is pushed and the try block left.
TesterRead(i, outcome) ==
  /\ testerPc = "reads"
  /\ eventResults[i] = "reading"
  /\ eventResults' = [eventResults EXCEPT ![i] = outcome]
  /\ readers' = [readers EXCEPT ![i] = ReaderAfter(outcome)]
  /\ IF Settled(eventResults')
       THEN /\ testerChecks' =
                 Append(testerChecks,
                        FunctionalCheck(streamResponses, eventResults'))
            /\ testerPc' = AfterTry(testerClient)
       ELSE UNCHANGED <<testerChecks, testerPc>>
  /\ UNCHANGED <<testerSessionId, testerClient, testerCloseCalls, testerError,
                 posted, streamResponses>>
  /\ UNCHANGED <<proberVars, harnessVars, authVars>>

\* finally of the tester: await client.close() settled.
TesterClose(threw) ==
  /\ testerPc = "cleanup"
  /\ testerCloseCalls' = testerCloseCalls + 1
  /\ testerClient' = "closed"
  /\ testerPc' = AfterClose(threw)
  /\ UNCHANGED <<testerChecks, testerSessionId, testerError, posted,
                 streamResponses, eventResults, readers>>
  /\ UNCHANGED <<proberVars, harnessVars, authVars>>

\* One run of the tester against every server behaviour of the input sets.
NextTester ==
  \/ \E o \in {"ok", "client-throws", "url-throws", "connect-throws"} :
       \E sid \in SessionIds : TesterConnect(o, sid)
  \/ \E i \in StreamIndices : \E st \in TesterStatuses :
       \E ct \in TesterContentTypes : \E b \in BOOLEAN :
         TesterResponse(i, st, ct, b)
  \/ \E i \in StreamIndices : TesterPostFails(i)
  \/ \E i \in StreamIndices : \E o \in ReadOutcomes : TesterRead(i, o)
  \/ \E threw \in BOOLEAN : TesterClose(threw)

SpecTester == Init /\ [][NextTester]_vars

\* The runner executes the one scenario getScenario(name) returns: run() of
\* the prober or run() of the tester, whichever is entered first.
NextClients ==
  \/ /\ testerPc = "start"
     /\ \E o \in {"ok", "client-throws", "url-throws", "connect-throws"} :
          \E sid \in SessionIds : Connect(o, sid)
  \/ \E st \in PostStatuses : \E ct \in ContentTypes : \E b \in BOOLEAN :
       PostResponds(st, ct, b)
  \/ PostFails
  \/ \E e \in PostEvents : ReadEvent(e)
  \/ Timeout
  \/ ReadFails
  \/ ReadDone
  \/ \E st \in GetStatuses : \E b \in BOOLEAN : GetResponds(st, b)
  \/ GetFails
  \/ \E e \in GetEvents : RereadEvent(e)
  \/ ReconnectTimeout
  \/ RereadDone
  \/ RereadFails
  \/ \E threw \in BOOLEAN : Close(threw)
  \/ /\ pc = "start"
     /\ \E o \in {"ok", "client-throws", "url-throws", "connect-throws"} :
          \E sid \in SessionIds : TesterConnect(o, sid)
  \/ \E i \in StreamIndices : \E st \in TesterStatuses :
       \E ct \in TesterContentTypes : \E b \in BOOLEAN :
         TesterResponse(i, st, ct, b)
  \/ \E i \in StreamIndices : TesterPostFails(i)
  \/ \E i \in StreamIndices : \E o \in ReadOutcomes : TesterRead(i, o)
  \/ \E threw \in BOOLEAN : TesterClose(threw)

SpecClients == Init /\ [][NextClients]_vars

\* The runner executes one scenario, of either role: the harness with all
\* its handlers, or one of the two client-role run() calls.
NextScenario ==
  \/ /\ pc = "start" /\ testerPc = "start"
     /\ Start
  \/ \E h \in LastEventIdHeaders : HandleGet("/", "session-0", h)
  \/ \E id \in PlainIds : HandlePost("tools/call", id)
  \/ \E m \in PlainMethods : \E id \in PlainIds : HandlePost(m, id)
  \/ HandleParseError
  \/ HandleOtherMethod
  \/ \E t \in timers : CloseTimer(t)
  \/ Tick(TimePoints)
  \/ GetChecks
  \/ /\ server = "null"
     /\ NextClients

SpecScenario == Init /\ [][NextScenario]_vars

\* ======================================================================
\* Properties of the polling prober and the multi-stream tester
\* ======================================================================
\* C18: run() of the prober and of the tester never throws; a caught error
\* appends exactly one FAILURE entry carrying the error text behind the
\* entries pushed before, which stay as they were, and nothing is pushed
\* after it.
C18_TopLevelGuard ==
  /\ [](pc # "threw" /\ testerPc # "threw")
  /\ [][error' # error =>
          /\ error = ""
          /\ probeChecks' =
               Append(probeChecks,
                      Check("ServerSSEPollingTest", "FAILURE",
                            "Error: " \o error', <<>>))]_vars
  /\ [][error # "" => probeChecks' = probeChecks]_vars
  /\ [][testerError' # testerError =>
          /\ testerError = ""
          /\ testerChecks' =
               Append(testerChecks,
                      Check("ServerSSEMultipleStreamsTest", "FAILURE",
                            "Error: " \o testerError', <<>>))]_vars
  /\ [][testerError # "" => testerChecks' = testerChecks]_vars

C18_Witness ==
  /\ pc = "returned"
  /\ error = "read failed"
  /\ redecoded # <<>>
  /\ probeChecks[Len(probeChecks)].name = "ServerSSEPollingTest"
  /\ probeChecks[Len(probeChecks) - 1].name = "IncomingSseEvent"

\* C19: once the client object exists, run() of the prober and of the tester
\* returns only after exactly one client.close(); the close adds no entry
\* and its error does not escape.
C19_GuaranteedCleanup ==
  /\ [](pc # "threw" /\ testerPc # "threw")
  /\ [](closeCalls <= 1 /\ testerCloseCalls <= 1)
  /\ []((pc = "returned" /\ client # "undefined")
          => (closeCalls = 1 /\ client = "closed"))
  /\ []((testerPc = "returned" /\ testerClient # "undefined")
          => (testerCloseCalls = 1 /\ testerClient = "closed"))
  /\ [][closeCalls' # closeCalls =>
          (probeChecks' = probeChecks /\ pc' = "returned")]_vars
  /\ [][testerCloseCalls' # testerCloseCalls =>
          (testerChecks' = testerChecks /\ testerPc' = "returned")]_vars

C19_Witness ==
  /\ testerPc = "returned"
  /\ testerCloseCalls = 1
  /\ testerSessionId = ""
  /\ testerClient = "closed"
  /\ testerError = ""

\* The id of the last id-bearing event of a sequence of events, "" if none.
RECURSIVE LastId(_)
LastId(events) ==
  IF events = <<>> THEN ""
  ELSE IF events[Len(events)].id # "" THEN events[Len(events)].id
  ELSE LastId(SubSeq(events, 1, Len(events) - 1))

\* The GET requests sent so far.
Gets == {i \in 1..Len(sent) : sent[i].method = "GET"}

\* The read loop of the POST stream was left through done.
InitialStreamEnded ==
  pc \notin {"start", "post", "read"} /\ reader \in {"done", "cancelled"}

\* C20: a GET is sent iff the initial stream has ended without a response
\* with id 1, an event id was seen and a session id exists; it carries the
\* id of the last id-bearing event of the initial stream as Last-Event-ID;
\* there is at most one GET.
C20_ResumptionWhenNeeded ==
  /\ Cardinality(Gets) <= 1
  /\ Gets # {} <=>
       /\ InitialStreamEnded
       /\ \A k \in 1..Len(decoded) : ~IsToolResponse(decoded[k].data)
       /\ LastId(decoded) # ""
       /\ probeSessionId # ""
  /\ \A i \in Gets :
       /\ sent[i].lastEventId = LastId(decoded)
       /\ sent[i].sid = probeSessionId

C20_Witness ==
  /\ Gets # {}
  /\ Len(decoded) = 2
  /\ decoded[1].id = "e1"
  /\ decoded[2].id = ""
  /\ pc = "returned"

\* The entries of the prober's ledger with a given name.
ProbeEntries(name) ==
  {g \in 1..Len(probeChecks) : probeChecks[g].name = name}

\* The entries loggingFetch pushed for the answer to the GET.
GetAnswers ==
  {a \in ProbeEntries("IncomingResponse") : probeChecks[a].details.method = "GET"}

\* A response with id 1 was decoded on the GET stream.
ResumedResult == \E k \in 1..Len(redecoded) : IsToolResponse(redecoded[k].data)

\* C21: after a resumption GET the ServerDisconnectResume entry is INFO for
\* a 405 answer, WARNING for any other answer that is not a readable success,
\* and for a stream that was read SUCCESS iff a response with id 1 was
\* decoded on it, WARNING otherwise; a run that got through step 4 has
\* exactly one such entry.
C21_ResumptionVerdict ==
  /\ \A g \in ProbeEntries("ServerDisconnectResume") :
       Gets # {} =>
         \E a \in GetAnswers :
           /\ a < g
           /\ probeChecks[g].status =
                CASE probeChecks[a].details.statusCode = 405 -> "INFO"
                  [] probeChecks[a].details.statusCode \notin 200..299
                       /\ probeChecks[a].details.statusCode # 405 -> "WARNING"
                  [] OTHER -> IF ResumedResult THEN "SUCCESS" ELSE "WARNING"
  /\ (Gets # {} /\ pc \in {"cleanup", "returned"} /\ error = "")
       => Cardinality(ProbeEntries("ServerDisconnectResume")) = 1

C21_Witness ==
  /\ \E g \in ProbeEntries("ServerDisconnectResume") :
       probeChecks[g].status = "SUCCESS"
  /\ Len(redecoded) = 2
  /\ pc = "returned"

\* C22: the ServerSendsPrimingEvent entry is SUCCESS exactly when the first
\* event decoded on the POST stream has an id and data that is empty, '{}'
\* or whitespace; otherwise it is WARNING; it is never FAILURE.
C22_PrimingVerdict ==
  \A g \in ProbeEntries("ServerSendsPrimingEvent") :
    /\ probeChecks[g].status \in {"SUCCESS", "WARNING"}
    /\ probeChecks[g].status = "SUCCESS" <=>
         /\ decoded # <<>>
         /\ decoded[1].id # ""
         /\ decoded[1].data \in {"", "{}", " "}

C22_Witness ==
  /\ \E g \in ProbeEntries("ServerSendsPrimingEvent") :
       probeChecks[g].status = "WARNING"
  /\ Len(decoded) = 2
  /\ decoded[1].data = "text"
  /\ decoded[2].id = "e2" /\ decoded[2].data = "{}"

\* The answers to the POST that are a success without an SSE content type.
JsonAnswers ==
  {a \in ProbeEntries("IncomingResponse") :
     /\ probeChecks[a].details.method = "POST"
     /\ probeChecks[a].details.statusCode \in 200..299
     /\ probeChecks[a].details.contentType # "text/event-stream"}

\* C23: when the POST succeeds with a content type other than
\* text/event-stream, one INFO entry follows the answer and the run stops:
\* nothing is read, no priming, retry-field or disconnect-resume entry is
\* pushed and no GET is sent.
C23_JsonAnswerStops ==
  \A a \in JsonAnswers :
    /\ Len(probeChecks) = a + 1
    /\ probeChecks[a + 1].name = "ServerSSEContentType"
    /\ probeChecks[a + 1].status = "INFO"
    /\ pc \in {"cleanup", "returned"}
    /\ reader = "none" /\ decoded = <<>>
    /\ ProbeEntries("ServerSendsPrimingEvent") = {}
    /\ ProbeEntries("ServerSendsRetryField") = {}
    /\ ProbeEntries("ServerDisconnectResume") = {}
    /\ Gets = {}

C23_Witness ==
  /\ \E a \in JsonAnswers : probeChecks[a].details.contentType = "application/json"
  /\ pc = "returned"
  /\ closeCalls = 1

\* The handshake of the prober, of the tester, went through.
ProberConnected ==
  pc # "start" /\ error \notin {"client-throws", "url-throws", "connect-throws"}
TesterConnected ==
  /\ testerPc # "start"
  /\ testerError \notin {"client-throws", "url-throws", "connect-throws"}

\* The entries of the tester's ledger with a given name.
TesterEntries(name) ==
  {g \in 1..Len(testerChecks) : testerChecks[g].name = name}

\* C24 (as claimed): without a session id from the handshake both scenarios
\* push a WARNING entry and send no request at all.
C24_NoProbeWithoutSession ==
  /\ (ProberConnected /\ probeSessionId = "") =>
       /\ \E g \in ProbeEntries("ServerSSEPollingSession") :
            probeChecks[g].status = "WARNING"
       /\ sent = <<>>
  /\ (TesterConnected /\ testerSessionId = "") =>
       /\ \E g \in TesterEntries("ServerSSEMultipleStreamsSession") :
            testerChecks[g].status = "WARNING"
       /\ posted = <<>>

\* C24 (amended): without a session id from the handshake both scenarios
\* push a WARNING entry; the tester then sends no POST, the prober sends its
\* tools/call POST without session header and never a GET.  With a session
\* id neither pushes the entry.
C24_MissingSession ==
  /\ (ProberConnected /\ probeSessionId = "") =>
       /\ \E g \in ProbeEntries("ServerSSEPollingSession") :
            probeChecks[g].status = "WARNING"
       /\ sent = <<[method |-> "POST", sid |-> "", lastEventId |-> "",
                    jsonrpcMethod |-> "tools/call", jsonrpcId |-> 1]>>
       /\ Gets = {}
  /\ (ProberConnected /\ probeSessionId # "") =>
       ProbeEntries("ServerSSEPollingSession") = {}
  /\ (TesterConnected /\ testerSessionId = "") =>
       /\ \E g \in TesterEntries("ServerSSEMultipleStreamsSession") :
            testerChecks[g].status = "WARNING"
       /\ posted = <<>>
       /\ testerPc \in {"cleanup", "returned"}
       /\ Len(testerChecks) = 1
  /\ (TesterConnected /\ testerSessionId # "") =>
       TesterEntries("ServerSSEMultipleStreamsSession") = {}

C24_Witness ==
  /\ ProberConnected /\ probeSessionId = ""
  /\ probeLastEventId # "" /\ ~receivedToolResponse
  /\ ProbeEntries("ServerDisconnectResume") # {}
  /\ pc = "returned"

C26_ConcurrentLaunch ==
  /\ Len(posted) \in {0, numStreams}
  /\ (\E i \in StreamIndices : streamResponses[i].arrived)
       => Len(posted) = numStreams
  /\ \A k \in 1..Len(posted) :
       /\ posted[k].method = "POST"
       /\ posted[k].sid = testerSessionId
       /\ posted[k].sid # ""
  /\ \A k, l \in 1..Len(posted) :
       k # l => posted[k].jsonrpcId # posted[l].jsonrpcId

C26_Witness ==
  /\ Len(posted) = 3
  /\ testerPc = "posts"
  /\ \A i \in StreamIndices : ~streamResponses[i].arrived

\* C27 (as claimed): the ServerAcceptsMultiplePostStreams entry is SUCCESS
\* exactly when every response has status 200, FAILURE otherwise.
C27_AcceptanceVerdict ==
  \A g \in TesterEntries("ServerAcceptsMultiplePostStreams") :
    /\ testerChecks[g].status \in {"SUCCESS", "FAILURE"}
    /\ testerChecks[g].status = "SUCCESS" <=>
         \A i \in StreamIndices : streamResponses[i].status = 200

\* The streams with an SSE content type, and those of them whose test ended
\* without an error.
SseStreams == {i \in StreamIndices : streamResponses[i].ctype = "text/event-stream"}
FunctionalStreams ==
  {i \in SseStreams : eventResults[i] \in {"event", "timeout", "ended"}}

\* C28: with k >= 1 SSE responses the ServerSSEStreamsFunctional entry is
\* SUCCESS iff all k stream tests ended without error (an event, or none in
\* time), WARNING iff some but not all did, FAILURE iff none did; with k = 0
\* it is INFO; a run that got through step 3 has exactly one such entry, any
\* other run none.
C28_FunctionalVerdict ==
  /\ \A g \in TesterEntries("ServerSSEStreamsFunctional") :
       LET k == Cardinality(SseStreams)
           f == Cardinality(FunctionalStreams)
       IN  testerChecks[g].status =
             CASE k = 0 -> "INFO"
               [] k >= 1 /\ f = k -> "SUCCESS"
               [] k >= 1 /\ 0 < f /\ f < k -> "WARNING"
               [] OTHER -> "FAILURE"
  /\ Cardinality(TesterEntries("ServerSSEStreamsFunctional")) =
       IF /\ testerPc \in {"cleanup", "returned"}
          /\ TesterConnected /\ testerSessionId # "" /\ testerError = ""
         THEN 1 ELSE 0

C28_Witness ==
  /\ \E g \in TesterEntries("ServerSSEStreamsFunctional") :
       testerChecks[g].status = "WARNING"
  /\ Cardinality(SseStreams) = 3
  /\ \E i, j \in SseStreams :
       eventResults[i] = "timeout" /\ eventResults[j] = "read-error"
  /\ testerPc = "returned"

\* ======================================================================
\* Properties of the harness over start()/stop() cycles and of the ledgers
\* ======================================================================
\* C29 (as claimed): every start() leaves the harness with an empty ledger
\* and a fresh timeline: no GET count, no close or reconnect instant, no
\* Last-Event-IDs, no pending response, the event-id counter at 0.
C29_FreshStart ==
  [][(server = "null" /\ server' = "listening") =>
       /\ checks' = <<>>
       /\ getConnectionCount' = 0
       /\ toolStreamCloseTime' = Null
       /\ getReconnectionTime' = Null
       /\ lastEventIds' = <<>>
       /\ pendingToolCallId' = Null
       /\ eventIdCounter' = 0]_vars

\* a is a prefix of b.
IsPrefix(a, b) == Len(a) <= Len(b) /\ SubSeq(b, 1, Len(a)) = a

\* The event ids of the IncomingSseEvent entries of a ledger, in ledger
\* order: those of the POST stream (onGet = FALSE) or of the GET stream.
RECURSIVE EventEntryIds(_, _)
EventEntryIds(ledger, onGet) ==
  IF ledger = <<>> THEN <<>>
  ELSE LET c == Head(ledger)
       IN  (IF /\ c.name = "IncomingSseEvent"
               /\ ("onGet" \in DOMAIN c.details) = onGet
              THEN <<c.details.eventId>> ELSE <<>>)
           \o EventEntryIds(Tail(ledger), onGet)

\* The event ids the read loop of the POST stream reports for a sequence of
\* decoded events: one per event with an id, one per response with id 1.
RECURSIVE ReportedIds(_)
ReportedIds(events) ==
  IF events = <<>> THEN <<>>
  ELSE LET e == Head(events)
       IN  (IF e.id # "" THEN <<e.id>> ELSE <<>>)
           \o (IF e.data \in {"result-1", "error-result-1"} THEN <<e.id>> ELSE <<>>)
           \o ReportedIds(Tail(events))

\* The ids of a sequence of events.
EventIdsOf(events) == [k \in 1..Len(events) |-> events[k].id]

\* C30: every step of the harness and of a client-role run leaves the
\* ledger it had as a prefix of the ledger it has afterwards, and the
\* entries for the events of one stream stand in the order of decoding.
C30_AppendOnly ==
  /\ [][/\ IsPrefix(checks, checks')
        /\ IsPrefix(probeChecks, probeChecks')
        /\ IsPrefix(testerChecks, testerChecks')]_vars
  /\ [](/\ EventEntryIds(probeChecks, FALSE) = ReportedIds(decoded)
        /\ EventEntryIds(probeChecks, TRUE) = EventIdsOf(redecoded))

C30_Witness ==
  /\ pc = "returned"
  /\ Len(decoded) = 2 /\ decoded[1].id = "e1" /\ decoded[2].id = "e3"
  /\ Len(redecoded) = 2 /\ redecoded[1].id = "e4" /\ redecoded[2].id = "e5"
  /\ Len(probeChecks) >= 10

\* ======================================================================
\* Properties of the resumption guard, the stream readers, the request log
\* ======================================================================
\* C31 (as claimed): a GET handled by the harness without a Last-Event-ID
\* header, or without the session id of the harness, leaves the pending
\* slot as it was and gets no deferred result on its stream.
C31_ResumptionGuard ==
  [][\A r \in GetRequests :
       (/\ HandleGet(r.url, r.sid, r.lastEventId)
        /\ (r.lastEventId = NoHeader \/ r.sid # sessionId))
         => /\ pendingToolCallId' = pendingToolCallId
            /\ \A k \in 1..Len(responses'[Len(responses')].events) :
                 responses'[Len(responses')].events[k].data # "result"]_vars

\* C32 (as claimed): when run() of the prober or of the tester has
\* returned, none of the stream readers it opened is still open: each has
\* read the end of its stream, was cancelled, or has failed.
C32_NoOpenReader ==
  /\ (pc = "returned" => reader # "open" /\ reconnectReader # "open")
  /\ (testerPc = "returned" => \A i \in StreamIndices : readers[i] # "open")

\* What the test of one stream may record, given the response of that
\* stream alone.
OutcomesFor(r) ==
  IF r.ctype # "text/event-stream" THEN {"json"}
  ELSE IF r.status < 200 \/ r.status > 299 \/ ~r.hasBody THEN {"unavailable"}
  ELSE ReadOutcomes

\* C33: the two verdicts of the tester are functions of the set of responses
\* and per-stream outcomes, not of the order in which they came: the
\* verdicts in the ledger are the ones computed from the final records under
\* every renumbering of the streams, they are pushed only when every stream
\* has settled, the outcome recorded for stream i is one its own response
\* allows, and no step alters what was recorded for another stream.
C33_IndependentStreams ==
  /\ [](\A g \in TesterEntries("ServerAcceptsMultiplePostStreams") :
          /\ \A i \in StreamIndices : streamResponses[i].arrived
          /\ testerChecks[g].details.statuses =
               [i \in StreamIndices |-> streamResponses[i].status]
          /\ \A q \in Permutations(StreamIndices) :
               testerChecks[g].status =
                 AcceptCheck([i \in StreamIndices |-> streamResponses[q[i]]]).status)
  /\ [](\A g \in TesterEntries("ServerSSEStreamsFunctional") :
          /\ \A i \in StreamIndices :
               eventResults[i] \in OutcomesFor(streamResponses[i])
          /\ testerChecks[g].details.results = eventResults
          /\ \A q \in Permutations(StreamIndices) :
               testerChecks[g].status =
                 FunctionalCheck([i \in StreamIndices |-> streamResponses[q[i]]],
                                 [i \in StreamIndices |-> eventResults[q[i]]]).status)
  /\ [][\A j \in StreamIndices :
          /\ streamResponses[j].arrived =>
               streamResponses'[j] = streamResponses[j]
          /\ eventResults[j] \notin {"pending", "reading"} =>
               eventResults'[j] = eventResults[j]]_vars

C33_Witness ==
  /\ testerPc = "returned"
  /\ streamResponses[0].status = 500
  /\ streamResponses[1].ctype = "application/json"
  /\ eventResults[2] = "event"
  /\ \E g \in TesterEntries("ServerAcceptsMultiplePostStreams") :
       testerChecks[g].status = "FAILURE"
  /\ \E g \in TesterEntries("ServerSSEStreamsFunctional") :
       testerChecks[g].status \in {"SUCCESS", "WARNING"}

\* The OutgoingRequest and the IncomingResponse entries of the prober's
\* ledger, and the rank of entry g among the entries of the set it is in.
RequestEntries == ProbeEntries("OutgoingRequest")
ResponseEntries == ProbeEntries("IncomingResponse")
RankIn(entries, g) == Cardinality({h \in entries : h <= g})

\* C34: the prober's ledger has one INFO OutgoingRequest entry per request
\* handed to fetch, carrying that request; the k-th IncomingResponse entry
\* is INFO, stands after the k-th OutgoingRequest entry and before the next
\* one, and is for the same method; a request whose fetch is pending or was
\* rejected has its OutgoingRequest entry and no IncomingResponse entry.
C34_RequestLog ==
  /\ Cardinality(RequestEntries) = Len(sent)
  /\ \A o \in RequestEntries :
       /\ probeChecks[o].status = "INFO"
       /\ probeChecks[o].details = sent[RankIn(RequestEntries, o)]
  /\ \A g \in ResponseEntries :
       /\ probeChecks[g].status = "INFO"
       /\ \E o \in RequestEntries :
            /\ o < g
            /\ RankIn(RequestEntries, o) = RankIn(ResponseEntries, g)
            /\ RankIn(RequestEntries, g) = RankIn(RequestEntries, o)
            /\ probeChecks[g].details.method = probeChecks[o].details.method
  /\ Cardinality(ResponseEntries) =
       Cardinality(RequestEntries)
         - (IF pc \in {"post", "get"} \/ error = "fetch failed" THEN 1 ELSE 0)

C34_Witness ==
  /\ pc = "returned"
  /\ error = "fetch failed"
  /\ Cardinality(RequestEntries) = 2
  /\ Cardinality(ResponseEntries) = 1
  /\ \E g \in ResponseEntries : probeChecks[g].details.statusCode = 200

\* A response with id 1 was decoded on the POST stream.
InitialResult == \E k \in 1..Len(decoded) : IsToolResponse(decoded[k].data)

MaxAuthRequests == 3

\* A scope parameter on the wire is a string of names separated by blanks;
\* here the sequence of its names and blanks, <<>> for an absent or empty
\* parameter.
ScopeParams == {<<>>, <<"read">>, <<"read", " ", "write">>}
ClientIds == {"client-a", "client-b"}

\* The options createAuthServer is called with: the onTokenRequest hook
\* ("none", one that grants what the token request asks for, one that
\* rejects) and whether a tokenVerifier is given.
AuthOptions ==
  {[created |-> TRUE, onTokenRequest |-> "none", tokenVerifier |-> TRUE],
   [created |-> TRUE, onTokenRequest |-> "grant-requested", tokenVerifier |-> TRUE],
   [created |-> TRUE, onTokenRequest |-> "reject", tokenVerifier |-> FALSE]}

\* The authorization requests: query parameters client_id, scope, state and
\* whether redirect_uri parses as a URL.
AuthorizeRequests ==
  {[clientId |-> c, scope |-> sc, state |-> "st", validRedirect |-> TRUE] :
     c \in ClientIds, sc \in ScopeParams}
  \cup {[clientId |-> "client-a", scope |-> <<"read">>, state |-> "",
          validRedirect |-> TRUE],
        [clientId |-> "client-a", scope |-> <<"read">>, state |-> "st",
          validRedirect |-> FALSE]}

\* The token requests: body fields client_id, scope and grant_type.
TokenRequests ==
  {[clientId |-> c, scope |-> sc, grantType |-> "authorization_code"] :
     c \in ClientIds, sc \in {<<>>, <<"read">>}}

\* scopeParam ? scopeParam.split(' ') : []
SplitScope(param) == SelectSeq(param, LAMBDA w : w # " ")

\* scopes.join(' ')
RECURSIVE JoinScope(_)
JoinScope(scopes) ==
  IF Len(scopes) <= 1 THEN scopes
  ELSE <<Head(scopes), " ">> \o JoinScope(Tail(scopes))

\* createAuthServer(checks, getAuthBaseUrl, options): the closure is set up
\* and the routes are registered.
CreateAuthServer(options) ==
  /\ ~authServer.created
  /\ authServer' = options
  /\ lastAuthorizationScopes' = <<>>
  /\ UNCHANGED <<authChecks, authResponses, registeredTokens>>
  /\ UNCHANGED <<harnessVars, clientVars>>

\* The server exists and the request budget of the model is not used up.
AuthAccepting ==
  /\ authServer.created
  /\ Len(authResponses) < MaxAuthRequests

\* app.get(metadataPath)
Metadata ==
  /\ AuthAccepting
  /\ authChecks' = Append(authChecks,
       Check("AuthorizationServerMetadata", "SUCCESS", "", <<>>))
  /\ authResponses' = Append(authResponses,
       [kind |-> "metadata", request |-> <<>>, status |-> 200,
        body |-> [authorization_endpoint |-> "/authorize",
                  token_endpoint |-> "/token",
                  registration_endpoint |-> "/register"]])
  /\ UNCHANGED <<authServer, lastAuthorizationScopes, registeredTokens>>
  /\ UNCHANGED <<harnessVars, clientVars>>

\* app.get(authorization_endpoint): the check, the scopes of the request
\* kept in lastAuthorizationScopes, then the redirect with the fixed code;
\* `new URL(redirectUri)` throws on a redirect_uri that is no URL, which
\* express answers 500.
Authorize(request) ==
  /\ AuthAccepting
  /\ authChecks' = Append(authChecks,
       Check("AuthorizationRequest", "SUCCESS", "", request))
  /\ lastAuthorizationScopes' = SplitScope(request.scope)
  /\ authResponses' = Append(authResponses,
       IF request.validRedirect
         THEN [kind |-> "authorize", request |-> request, status |-> 302,
               body |-> [code |-> "test-auth-code", state |-> request.state]]
         ELSE [kind |-> "authorize", request |-> request, status |-> 500,
               body |-> <<>>])
  /\ UNCHANGED <<authServer, registeredTokens>>
  /\ UNCHANGED <<harnessVars, clientVars>>

\* The result of the onTokenRequest hook for a request.
OnTokenRequest(hook, request) ==
  IF hook = "reject"
    THEN [error |-> "invalid_grant", token |-> "", scopes |-> <<>>]
    ELSE [error |-> "", token |-> "hook-token",
          scopes |-> SplitScope(request.scope)]

\* Token and scopes of a token response that is no error: those of the
\* hook, or `test-token-${Date.now()}` and lastAuthorizationScopes.
Granted(hook, request, at, last) ==
  IF hook = "none"
    THEN [token |-> "test-token-" \o ToString(at), scopes |-> last]
    ELSE [token |-> OnTokenRequest(hook, request).token,
          scopes |-> OnTokenRequest(hook, request).scopes]

\* app.post(token_endpoint): the check, the hook, the registration with the
\* verifier and the response; `scope` is left out of the body when no scope
\* is granted (<<>> here).  The clock reading is the arrival number.
Token(request) ==
  /\ AuthAccepting
  /\ authChecks' = Append(authChecks,
       Check("TokenRequest", "SUCCESS", "", [grantType |-> request.grantType]))
  /\ LET hook == authServer.onTokenRequest
         at == Len(authResponses) + 1
         granted == Granted(hook, request, at, lastAuthorizationScopes)
     IN  IF hook # "none" /\ OnTokenRequest(hook, request).error # ""
           THEN /\ authResponses' = Append(authResponses,
                     [kind |-> "token", request |-> request, status |-> 400,
                      body |-> [error |-> OnTokenRequest(hook, request).error]])
                /\ UNCHANGED registeredTokens
           ELSE /\ authResponses' = Append(authResponses,
                     [kind |-> "token", request |-> request, status |-> 200,
                      body |-> [access_token |-> granted.token,
                                token_type |-> "Bearer",
                                scope |-> JoinScope(granted.scopes)]])
                /\ registeredTokens' =
                     IF authServer.tokenVerifier
                       THEN registeredTokens \cup {granted}
                       ELSE registeredTokens
  /\ UNCHANGED <<authServer, lastAuthorizationScopes>>
  /\ UNCHANGED <<harnessVars, clientVars>>

\* app.post(registration_endpoint)
Register(clientName) ==
  /\ AuthAccepting
  /\ authChecks' = Append(authChecks,
       Check("ClientRegistration", "SUCCESS", "", [clientName |-> clientName]))
  /\ authResponses' = Append(authResponses,
       [kind |-> "register", request |-> [clientName |-> clientName],
        status |-> 201,
        body |-> [client_id |-> "test-client-id",
                  client_name |-> IF clientName # "" THEN clientName
                                  ELSE "test-client"]])
  /\ UNCHANGED <<authServer, lastAuthorizationScopes, registeredTokens>>
  /\ UNCHANGED <<harnessVars, clientVars>>

\* One authorization server under every sequence of requests to its routes.
NextAuth ==
  \/ \E o \in AuthOptions : CreateAuthServer(o)
  \/ Metadata
  \/ \E r \in AuthorizeRequests : Authorize(r)
  \/ \E r \in TokenRequests : Token(r)
  \/ \E n \in {"", "my-client"} : Register(n)

SpecAuth == Init /\ [][NextAuth]_vars

\* The token responses sent so far.
TokenResponses ==
  {i \in 1..Len(authResponses) : authResponses[i].kind = "token"}

\* The authorization requests of client c handled before response i, and
\* the scopes of the latest of them.
AuthorizationsBefore(c, i) ==
  {a \in 1..(i - 1) : /\ authResponses[a].kind = "authorize"
                      /\ authResponses[a].request.clientId = c}
AuthorizedBefore(c, i) ==
  LET a == CHOOSE x \in AuthorizationsBefore(c, i) :
             \A y \in AuthorizationsBefore(c, i) : y <= x
  IN  SplitScope(authResponses[a].request.scope)

\* C35 (as claimed): the answer to a token request depends on that request
\* and the hooks only: two token requests with the same body are granted
\* the same scope, and a client that made an authorization request is
\* granted the scope of its own latest one, whatever another client asked
\* for in between.
C35_Stateless ==
  /\ \A i, j \in TokenResponses :
       authResponses[i].request = authResponses[j].request =>
         /\ authResponses[i].status = authResponses[j].status
         /\ authResponses[i].status = 200 =>
              authResponses[i].body.scope = authResponses[j].body.scope
  /\ \A i \in TokenResponses :
       (/\ authResponses[i].status = 200
        /\ authServer.onTokenRequest = "none"
        /\ AuthorizationsBefore(authResponses[i].request.clientId, i) # {}) =>
         SplitScope(authResponses[i].body.scope)
           = AuthorizedBefore(authResponses[i].request.clientId, i)
====
